---- MODULE Spec2Model ----
(***************************************************************************)
(* A model of util.py of the HDF Product Designer utilities: the hierarchy *)
(* walker (order_objs), the identity rewriter (substitute_uuids) and the   *)
(* HDF5/JSON validators (check_shape, check_type, value_check_factory,     *)
(* validate_h5json).                                                       *)
(*                                                                         *)
(* Python strings that the code slices, splits or joins are sequences of   *)
(* one-character strings, so that slicing and splitting are computed and   *)
(* not assumed.  Strings the code only compares are TLA+ strings.          *)
(***************************************************************************)
EXTENDS Integers, Sequences, FiniteSets, TLC

VARIABLES
    h5j,        \* order_objs: the design's HDF5/JSON (argument h5j)
    otype,      \* order_objs: the argument otype
    grps,       \* order_objs: the local list grps
    dsets,      \* order_objs: the local list dsets
    stack,      \* order_objs: the activation records of tree_walker
    wpc,        \* order_objs: "idle", "start", "walking", "done", "raised"
    wret,       \* order_objs: the returned list, or the exception raised
    walk0,      \* the result of the walk made before the rewrite (round trip)
    objs,       \* substitute_uuids: the list objs, rewritten in place
    objs0,      \* substitute_uuids: the list objs as it was passed
    root_uuid,  \* substitute_uuids: the argument root_uuid
    sub_uuid,   \* substitute_uuids: the dictionary sub_uuid
    nuuid,      \* the number of calls of uuid4() made so far
    ridx,       \* substitute_uuids: the position of "for o in objs"
    rpc,        \* substitute_uuids: "idle", "start", "loop", "done", "raised"
    rret,       \* substitute_uuids: the value returned, or the exception
    vin,        \* the validators: the arguments of the call
    vout,       \* the validators: "none" or the exception raised
    vpc         \* the validators: "idle", "call", "done"

wvars == <<h5j, otype, grps, dsets, stack, wpc, wret, walk0>>
rvars == <<objs, objs0, root_uuid, sub_uuid, nuuid, ridx, rpc, rret>>
vvars == <<vin, vout, vpc>>
vars == <<wvars, rvars, vvars>>

(***************************************************************************)
(* Strings as character sequences.                                         *)
(***************************************************************************)
SLASH == "/"

G0 == <<"g", "0">>
G1 == <<"g", "1">>
G2 == <<"g", "2">>
G3 == <<"g", "3">>
D1 == <<"d", "1">>
T1 == <<"t", "1">>

\* posixpath.join(a, b) for two components
PathJoin(a, b) ==
    IF Len(b) > 0 /\ b[1] = SLASH THEN b
    ELSE IF Len(a) = 0 \/ a[Len(a)] = SLASH THEN a \o b
    ELSE a \o <<SLASH>> \o b

(***************************************************************************)
(* The hierarchy walker, order_objs.                                       *)
(***************************************************************************)

\* h5j['groups'][gid].get('links', [])
GroupLinks(gid) ==
    LET g == h5j.groups[gid]
    IN  IF "links" \in DOMAIN g THEN g.links ELSE <<>>

\* the mutant of _get_hard_links that returns the links in reverse order
GetHardLinksReversed(gid, collection) ==
    LET all == GroupLinks(gid)
        rev == [i \in 1..Len(all) |-> all[Len(all) + 1 - i]]
    IN  SelectSeq(rev, LAMBDA l : l.class = "H5L_TYPE_HARD"
                                  /\ l.collection = collection)

\* the mutant of _get_hard_links that does not test the link class
GetHardLinksAnyClass(gid, collection) ==
    SelectSeq(GroupLinks(gid), LAMBDA l : "collection" \in DOMAIN l
                                          /\ l.collection = collection)

\* the mutant of _get_hard_links that leaves out the links to the groups
\* the walk has listed already
GetHardLinksUnvisited(gid, collection) ==
    SelectSeq(GroupLinks(gid), LAMBDA l : l.class = "H5L_TYPE_HARD"
                                          /\ l.collection = collection
                                          /\ \A i \in 1..Len(grps) : grps[i].id # l.id)

\* _get_hard_links(gid, collection)
GetHardLinks(gid, collection) ==
    SelectSeq(GroupLinks(gid), LAMBDA l : l.class = "H5L_TYPE_HARD"
                                          /\ l.collection = collection)

\* the entries tree_walker builds from a list of links of the group ginfo
LinkEntries(ginfo, links) ==
    [i \in 1..Len(links) |->
        [id |-> links[i].id, path |-> PathJoin(ginfo.path, links[i].title)]]

\* tree_walker(ginfo) up to its loop over chld_grps: the datasets of the
\* group are appended to dsets, its child groups to grps, and the activation
\* record keeps chld_grps and the position of the loop.
EnterGroup(ginfo) ==
    LET dlinks    == GetHardLinks(ginfo.id, "datasets")
        glinks    == GetHardLinks(ginfo.id, "groups")
        chld_grps == LinkEntries(ginfo, glinks)
    IN  /\ dsets' = dsets \o LinkEntries(ginfo, dlinks)
        /\ grps'  = (IF stack = <<>> /\ wpc = "start"
                       THEN <<ginfo>> ELSE grps) \o chld_grps
        /\ stack' = (IF stack = <<>> THEN <<>>
                     ELSE [stack EXCEPT ![Len(stack)].i = @ + 1])
                    \o <<[ginfo |-> ginfo, chld_grps |-> chld_grps, i |-> 1]>>

\* order_objs up to and including the call tree_walker(grps[0])
OrderObjs ==
    /\ wpc = "start"
    /\ IF "root" \notin DOMAIN h5j
         THEN /\ wpc' = "raised"
              /\ wret' = [exc |-> "KeyError", val |-> <<>>]
              /\ UNCHANGED <<grps, dsets, stack>>
         ELSE LET ginfo == [id |-> h5j.root, path |-> <<SLASH>>]
              IN  IF ginfo.id \notin DOMAIN h5j.groups
                    THEN /\ wpc' = "raised"
                         /\ wret' = [exc |-> "KeyError", val |-> <<>>]
                         /\ grps' = <<ginfo>>
                         /\ UNCHANGED <<dsets, stack>>
                    ELSE /\ EnterGroup(ginfo)
                         /\ wpc' = "walking"
                         /\ UNCHANGED wret
    /\ UNCHANGED <<h5j, otype, walk0>>
    /\ UNCHANGED <<rvars, vvars>>

\* The most activations of tree_walker the interpreter nests: the recursion
\* limit of Python (sys.getrecursionlimit(), 1000 unless it is changed),
\* scaled down.  A call beyond it raises RuntimeError ("maximum recursion
\* depth exceeded"), which nothing in order_objs catches.
RecursionLimit == 4

\* one iteration of "for cg in chld_grps: tree_walker(cg)"
TreeWalkerCall ==
    /\ wpc = "walking"
    /\ stack # <<>>
    /\ LET top == stack[Len(stack)]
       IN  /\ top.i <= Len(top.chld_grps)
           /\ LET cg == top.chld_grps[top.i]
              IN  IF Len(stack) >= RecursionLimit
                    THEN /\ wpc' = "raised"
                         /\ wret' = [exc |-> "RuntimeError", val |-> <<>>]
                         /\ UNCHANGED <<grps, dsets, stack>>
                    ELSE IF cg.id \notin DOMAIN h5j.groups
                    THEN /\ wpc' = "raised"
                         /\ wret' = [exc |-> "KeyError", val |-> <<>>]
                         /\ UNCHANGED <<grps, dsets, stack>>
                    ELSE /\ EnterGroup(cg)
                         /\ UNCHANGED <<wpc, wret>>
    /\ UNCHANGED <<h5j, otype, walk0>>
    /\ UNCHANGED <<rvars, vvars>>

\* tree_walker returns when its loop is exhausted; when the outermost call
\* returns, order_objs returns grps or dsets.
TreeWalkerReturn ==
    /\ wpc = "walking"
    /\ stack # <<>>
    /\ stack[Len(stack)].i > Len(stack[Len(stack)].chld_grps)
    /\ stack' = SubSeq(stack, 1, Len(stack) - 1)
    /\ IF Len(stack) = 1
         THEN /\ wpc' = "done"
              /\ wret' = [exc |-> "none",
                          val |-> IF otype = "group" THEN grps ELSE dsets]
         ELSE UNCHANGED <<wpc, wret>>
    /\ UNCHANGED <<h5j, otype, grps, dsets, walk0>>
    /\ UNCHANGED <<rvars, vvars>>

(***************************************************************************)
(* Python values: a string [t |-> "str", v |-> characters], a list         *)
(* [t |-> "list", v |-> items], an integer [t |-> "int", v |-> number], a  *)
(* float [t |-> "float", v |-> number], a boolean [t |-> "bool", v |-> 0   *)
(* or 1]: bool is a subclass of int, True is 1 and False is 0.             *)
(*                                                                         *)
(* Python integers are unbounded and the code compares them with 2^32 and  *)
(* 2^64, so a number is written base + d, the base being 0 (b = 0), 2^b    *)
(* (b > 0) or -2^(-b) (b < 0) with |b| >= 7, and |d| <= MaxOffset.  The    *)
(* bases are at least 128 apart, so that the order of two numbers is the   *)
(* order of their bases and, for one base, of their offsets.               *)
(***************************************************************************)
PyStr(cs) == [t |-> "str", v |-> cs]
PyList(items) == [t |-> "list", v |-> items]
Num(b, d) == [t |-> "int", v |-> [b |-> b, d |-> d]]
PyInt(n) == Num(0, n)
PyFloat(b, d) == [t |-> "float", v |-> [b |-> b, d |-> d]]
PyBool(n) == [t |-> "bool", v |-> [b |-> 0, d |-> n]]

\* x < y and x <= y for two numbers
NumLess(x, y) == x.v.b < y.v.b \/ (x.v.b = y.v.b /\ x.v.d < y.v.d)
NumLeq(x, y) == x.v.b < y.v.b \/ (x.v.b = y.v.b /\ x.v.d <= y.v.d)

\* isinstance(v, numbers.Integral), isinstance(v, numbers.Real),
\* isinstance(v, basestring)
IsIntegral(v) == v.t \in {"int", "bool"}
IsReal(v) == v.t \in {"int", "bool", "float"}
IsString(v) == v.t = "str"

StartsWith(s, p) == Len(s) >= Len(p) /\ SubSeq(s, 1, Len(p)) = p

\* str.split(c)
RECURSIVE Split(_, _)
Split(s, c) ==
    IF \A i \in 1..Len(s) : s[i] # c THEN <<s>>
    ELSE LET i == CHOOSE k \in 1..Len(s) :
                      s[k] = c /\ \A j \in 1..(k - 1) : s[j] # c
         IN  <<SubSeq(s, 1, i - 1)>> \o Split(SubSeq(s, i + 1, Len(s)), c)

\* c.join(parts), parts not empty
RECURSIVE Join(_, _)
Join(parts, c) ==
    IF Len(parts) = 1 THEN parts[1]
    ELSE parts[1] \o <<c>> \o Join(Tail(parts), c)

(***************************************************************************)
(* The identity rewriter, substitute_uuids.                                *)
(***************************************************************************)
DatasetsPrefix == <<"d", "a", "t", "a", "s", "e", "t", "s", SLASH>>

\* the decimal digits of n
RECURSIVE Decimal(_)
Decimal(n) ==
    LET d == <<"0", "1", "2", "3", "4", "5", "6", "7", "8", "9">>
    IN  IF n < 10 THEN <<d[n + 1]>> ELSE Decimal(n \div 10) \o <<d[(n % 10) + 1]>>

\* str(uuid4()): the n-th identifier generated.  Generated identifiers differ
\* from each other and from every identifier of the input.
Uuid4(n) == <<"n">> \o Decimal(n)

\* the mutant of sub_uuid[k] that generates an identifier on every read
LookupNoCache(st, k) ==
    [st |-> [m |-> [x \in DOMAIN st.m \cup {k} |->
                       IF x = k THEN Uuid4(st.n + 1) ELSE st.m[x]],
             n |-> st.n + 1],
     v |-> Uuid4(st.n + 1)]

\* sub_uuid[k], a defaultdict(lambda: str(uuid4())): the value stored for k,
\* or a new identifier that is stored for k.  st holds the dictionary and
\* the number of identifiers generated.
Lookup(st, k) ==
    IF k \in DOMAIN st.m THEN [st |-> st, v |-> st.m[k]]
    ELSE [st |-> [m |-> [x \in DOMAIN st.m \cup {k} |->
                            IF x = k THEN Uuid4(st.n + 1) ELSE st.m[x]],
                  n |-> st.n + 1],
          v |-> Uuid4(st.n + 1)]

\* the mutant of replace_uuid that returns every string as it is
ReplaceUuidKeep(val, st) == [v |-> val, st |-> st]

\* replace_uuid(val, new_val_src)
ReplaceUuid(val, st) ==
    IF val.t = "str" /\ StartsWith(val.v, DatasetsPrefix)
      THEN LET parts == Split(val.v, SLASH)
               new   == Lookup(st, parts[2])
           IN  [v |-> PyStr(Join([parts EXCEPT ![2] = new.v], SLASH)),
                st |-> new.st]
      ELSE [v |-> val, st |-> st]

\* scrub_value(val, replacer) on the items of a list
RECURSIVE ScrubItems(_, _)
ScrubItems(items, st) ==
    IF items = <<>> THEN [v |-> <<>>, st |-> st]
    ELSE LET head == IF items[1].t = "list"
                       THEN LET r == ScrubItems(items[1].v, st)
                            IN  [v |-> PyList(r.v), st |-> r.st]
                       ELSE ReplaceUuid(items[1], st)
             rest == ScrubItems(Tail(items), head.st)
         IN  [v |-> <<head.v>> \o rest.v, st |-> rest.st]

\* scrub_value(val, replacer): a list is rewritten in place; a string that
\* is not empty raises TypeError at the assignment val[i] = ..., a number at
\* enumerate(val).
ScrubValue(val, st) ==
    IF val.t = "list"
      THEN LET r == ScrubItems(val.v, st)
           IN  [v |-> PyList(r.v), st |-> r.st, exc |-> "none"]
      ELSE IF val.t = "str" /\ val.v = <<>>
        THEN [v |-> val, st |-> st, exc |-> "none"]
        ELSE [v |-> val, st |-> st, exc |-> "TypeError"]

ReservedNames == {"REFERENCE_LIST", "DIMENSION_LIST"}

\* the mutant of the loop body that rewrites a copy and leaves o as it was
RewriteObjectCopy(o, st) ==
    LET a == Lookup(st, o.id)
        b == IF "_pid" \in DOMAIN o THEN Lookup(a.st, o._pid) ELSE a
    IN  [o |-> o, st |-> b.st, exc |-> "none"]

\* the body of "for o in objs"
RewriteObject(o, st) ==
    LET a  == Lookup(st, o.id)
        o1 == [o EXCEPT !.id = a.v]
        b  == IF "_pid" \in DOMAIN o THEN Lookup(a.st, o._pid) ELSE a
        o2 == IF "_pid" \in DOMAIN o THEN [o1 EXCEPT !._pid = b.v] ELSE o1
    IN  IF o._objtype = "attribute" /\ o.name \in ReservedNames
           /\ "value" \in DOMAIN o
          THEN LET c == ScrubValue(o.value, b.st)
               IN  [o |-> [o2 EXCEPT !.value = c.v], st |-> c.st, exc |-> c.exc]
          ELSE [o |-> o2, st |-> b.st, exc |-> "none"]

\* substitute_uuids up to its loop: sub_uuid[root_uuid] is read
SubstituteUuids ==
    /\ rpc = "start"
    /\ LET r == Lookup([m |-> sub_uuid, n |-> nuuid], root_uuid)
       IN  sub_uuid' = r.st.m /\ nuuid' = r.st.n
    /\ ridx' = 1
    /\ rpc' = "loop"
    /\ UNCHANGED <<objs, objs0, root_uuid, rret>>
    /\ UNCHANGED <<wvars, vvars>>

\* one iteration of "for o in objs"
SubstituteObject ==
    /\ rpc = "loop"
    /\ ridx <= Len(objs)
    /\ LET r == RewriteObject(objs[ridx], [m |-> sub_uuid, n |-> nuuid])
       IN  /\ objs' = [objs EXCEPT ![ridx] = r.o]
           /\ sub_uuid' = r.st.m
           /\ nuuid' = r.st.n
           /\ IF r.exc = "none"
                THEN /\ ridx' = ridx + 1
                     /\ UNCHANGED <<rpc, rret>>
                ELSE /\ rpc' = "raised"
                     /\ rret' = [exc |-> r.exc, val |-> <<>>]
                     /\ UNCHANGED ridx
    /\ UNCHANGED <<objs0, root_uuid>>
    /\ UNCHANGED <<wvars, vvars>>

\* return sub_uuid[root_uuid]
SubstituteReturn ==
    /\ rpc = "loop"
    /\ ridx > Len(objs)
    /\ LET r == Lookup([m |-> sub_uuid, n |-> nuuid], root_uuid)
       IN  /\ sub_uuid' = r.st.m /\ nuuid' = r.st.n
           /\ rret' = [exc |-> "none", val |-> r.v]
    /\ rpc' = "done"
    /\ UNCHANGED <<objs, objs0, root_uuid, ridx>>
    /\ UNCHANGED <<wvars, vvars>>

RewriterIdle ==
    /\ objs = <<>>
    /\ objs0 = <<>>
    /\ root_uuid = <<>>
    /\ sub_uuid = <<>>
    /\ nuuid = 0
    /\ ridx = 0
    /\ rpc = "idle"
    /\ rret = [exc |-> "none", val |-> <<>>]

ValidatorIdle ==
    /\ vin = <<>>
    /\ vout = [exc |-> "none", msg |-> ""]
    /\ vpc = "idle"

WalkerIdle ==
    /\ h5j = [groups |-> <<>>]
    /\ otype = "group"
    /\ grps = <<>>
    /\ dsets = <<>>
    /\ stack = <<>>
    /\ wpc = "idle"
    /\ wret = [exc |-> "none", val |-> <<>>]
    /\ walk0 = [exc |-> "none", val |-> <<>>]

(***************************************************************************)
(* The object lists the rewriter is run on.                                *)
(***************************************************************************)

\* the most objects of a list
MaxObjs == 2

U1 == <<"u", "1">>
U2 == <<"u", "2">>

\* "datasets/" followed by the characters cs
DatasetsRef(cs) == PyStr(DatasetsPrefix \o cs)

GroupsRef(cs) == PyStr(<<"g", "r", "o", "u", "p", "s", SLASH>> \o cs)

\* What an object is besides its identifiers: a group, or an attribute with
\* a reserved or another name and with or without a value.
ObjectKinds ==
    {[_objtype |-> "group", name |-> "g"],
     [_objtype |-> "attribute", name |-> "REFERENCE_LIST"],
     [_objtype |-> "attribute", name |-> "REFERENCE_LIST",
      value |-> PyList(<<DatasetsRef(U2)>>)],
     [_objtype |-> "attribute", name |-> "DIMENSION_LIST",
      value |-> PyList(<<PyList(<<DatasetsRef(U1 \o <<SLASH, "x">>), PyInt(1)>>),
                         GroupsRef(U1)>>)],
     [_objtype |-> "attribute", name |-> "units",
      value |-> PyList(<<DatasetsRef(U1)>>)],
     [_objtype |-> "attribute", name |-> "REFERENCE_LIST",
      value |-> DatasetsRef(U1)]}

WithIds(k, id, pid) ==
    [f \in DOMAIN k \cup {"id"} \cup (IF pid = <<>> THEN {} ELSE {"_pid"}) |->
        IF f = "id" THEN id ELSE IF f = "_pid" THEN pid ELSE k[f]]

Objects ==
    {WithIds(k, id, pid) : k \in ObjectKinds, id \in {U1, U2}, pid \in {<<>>, U1}}

ObjectLists == UNION {[1..n -> Objects] : n \in 0..MaxObjs}

InitRewrite ==
    /\ WalkerIdle
    /\ ValidatorIdle
    /\ objs \in ObjectLists
    /\ objs0 = objs
    /\ root_uuid \in {U1, U2}
    /\ sub_uuid = <<>>
    /\ nuuid = 0
    /\ ridx = 0
    /\ rpc = "start"
    /\ rret = [exc |-> "none", val |-> <<>>]

NextRewrite == SubstituteUuids \/ SubstituteObject \/ SubstituteReturn

SpecRewrite == InitRewrite /\ [][NextRewrite]_vars

(***************************************************************************)
(* The designs the walker is run on.                                       *)
(***************************************************************************)

\* the most links the groups of a design hold together
MaxLinks == 3

\* the titles of a group's links, by position
Titles == << <<"a">>, <<"b">> >>

GroupIds == <<G0, G1, G2, G3>>

HardLink(coll, id) == [class |-> "H5L_TYPE_HARD", collection |-> coll, id |-> id]

\* The links group number n may hold: hard links to the later groups (so the
\* hard group links hold no cycle), to a dataset and to a committed datatype,
\* a soft link and an external link.
LinkKinds(n) ==
    {HardLink("groups", GroupIds[m]) : m \in (n + 1)..Len(GroupIds)}
    \cup {HardLink("datasets", D1), HardLink("datatypes", T1),
          [class |-> "H5L_TYPE_SOFT", collection |-> "groups", id |-> G3],
          [class |-> "H5L_TYPE_EXTERNAL", file |-> "f.h5"]}

WithTitle(l, t) == [k \in DOMAIN l \cup {"title"} |-> IF k = "title" THEN t ELSE l[k]]

LinkLists(n) ==
    UNION {{[i \in 1..len |-> WithTitle(ks[i], Titles[i])] :
              ks \in [1..len -> LinkKinds(n)]} : len \in 0..Len(Titles)}

\* a group as h5tojson dumps it: without the key "links" when it has none
GroupOf(links) ==
    IF links = <<>> THEN [alias |-> <<>>] ELSE [alias |-> <<>>, links |-> links]

Designs ==
    {[root |-> G0,
      groups |-> [g \in {G0, G1, G2, G3} |->
                    IF g = G0 THEN GroupOf(l0) ELSE IF g = G1 THEN GroupOf(l1)
                    ELSE IF g = G2 THEN GroupOf(l2) ELSE GroupOf(l3)]] :
        <<l0, l1, l2, l3>> \in
            {q \in LinkLists(1) \X LinkLists(2) \X LinkLists(3) \X LinkLists(4) :
                Len(q[1]) + Len(q[2]) + Len(q[3]) + Len(q[4]) <= MaxLinks}}

InitWalk ==
    /\ h5j \in Designs \cup {[groups |-> [g \in {G0} |-> GroupOf(<<>>)]]}
    /\ otype \in {"group", "dataset"}
    /\ grps = <<>>
    /\ dsets = <<>>
    /\ stack = <<>>
    /\ wpc = "start"
    /\ wret = [exc |-> "none", val |-> <<>>]
    /\ walk0 = [exc |-> "none", val |-> <<>>]
    /\ RewriterIdle
    /\ ValidatorIdle

NextWalk == OrderObjs \/ TreeWalkerCall \/ TreeWalkerReturn

SpecWalk == InitWalk /\ [][NextWalk]_vars

(***************************************************************************)
(* What the walk is compared with: the routes of a design.  A route is the *)
(* sequence of link positions followed from the root, each position that   *)
(* of a hard link to a group in the link list of the group reached so far. *)
(***************************************************************************)
Occurrences(seq, e) == Cardinality({i \in 1..Len(seq) : seq[i] = e})

IsHardTo(l, coll) ==
    l.class = "H5L_TYPE_HARD" /\ l.collection = coll

RECURSIVE RouteEnd(_)
RouteEnd(r) ==
    IF r = <<>> THEN [ok |-> TRUE, id |-> h5j.root, path |-> <<SLASH>>]
    ELSE LET p == RouteEnd(SubSeq(r, 1, Len(r) - 1))
             n == r[Len(r)]
         IN  IF p.ok /\ n <= Len(GroupLinks(p.id))
                     /\ IsHardTo(GroupLinks(p.id)[n], "groups")
               THEN [ok |-> TRUE, id |-> GroupLinks(p.id)[n].id,
                     path |-> p.path \o (IF Len(r) = 1 THEN <<>> ELSE <<SLASH>>)
                                     \o GroupLinks(p.id)[n].title]
               ELSE [ok |-> FALSE, id |-> <<>>, path |-> <<>>]

Routes ==
    {r \in UNION {[1..n -> 1..Len(Titles)] : n \in 0..(Len(GroupIds) - 1)} :
        RouteEnd(r).ok}

GroupEntry(r) == [id |-> RouteEnd(r).id, path |-> RouteEnd(r).path]

\* the dataset links met along the routes: a route and a position in the
\* link list of the group the route ends at
DatasetRoutes ==
    {q \in Routes \X (1..Len(Titles)) :
        /\ q[2] <= Len(GroupLinks(RouteEnd(q[1]).id))
        /\ IsHardTo(GroupLinks(RouteEnd(q[1]).id)[q[2]], "datasets")}

DatasetEntry(q) ==
    LET l == GroupLinks(RouteEnd(q[1]).id)[q[2]]
    IN  [id |-> l.id,
         path |-> RouteEnd(q[1]).path
                  \o (IF q[1] = <<>> THEN <<>> ELSE <<SLASH>>) \o l.title]

\* the groups some route ends at, and the hard links they hold
ReachableGroups == {RouteEnd(r).id : r \in Routes}

HardLinksOn(coll) ==
    {q \in ReachableGroups \X (1..Len(Titles)) :
        /\ q[2] <= Len(GroupLinks(q[1]))
        /\ IsHardTo(GroupLinks(q[1])[q[2]], coll)}

\* the hard group links form a tree: no group is the end of two routes
IsTree == \A r, s \in Routes : RouteEnd(r).id = RouteEnd(s).id => r = s

\* route r comes before route s in depth-first pre-order
PreOrderBefore(r, s) ==
    \/ Len(r) < Len(s) /\ SubSeq(s, 1, Len(r)) = r
    \/ \E k \in 1..Len(r) :
          /\ k <= Len(s)
          /\ SubSeq(r, 1, k - 1) = SubSeq(s, 1, k - 1)
          /\ r[k] < s[k]

WalkDone == wpc = "done"

(***************************************************************************)
(* C1 (as stated): for a design whose hard group links form a tree, the    *)
(* group list is in depth-first pre-order: of two entries the earlier one  *)
(* is the one whose route comes first in pre-order, so that every group is *)
(* followed by its whole subtree before a later sibling.                   *)
(***************************************************************************)
C1_PreOrder ==
    (WalkDone /\ IsTree) =>
        \A i, j \in 1..Len(grps) : i < j =>
            \E r, s \in Routes :
                /\ GroupEntry(r) = grps[i] /\ GroupEntry(s) = grps[j]
                /\ PreOrderBefore(r, s)

(***************************************************************************)
(* C1 (amended): for a design whose hard group links form a tree, the root *)
(* comes first and the children of each group form one block, in link      *)
(* declaration order; the blocks follow each other in the depth-first      *)
(* pre-order of the groups they are the children of.  A group precedes its *)
(* subtree, but its later siblings come before its children.               *)
(***************************************************************************)
C1_BlockOrder ==
    (WalkDone /\ IsTree) =>
        /\ grps[1] = GroupEntry(<<>>)
        /\ \A i, j \in 2..Len(grps) : i < j =>
              \E r, s \in Routes \ {<<>>} :
                  /\ GroupEntry(r) = grps[i] /\ GroupEntry(s) = grps[j]
                  /\ LET pr == SubSeq(r, 1, Len(r) - 1)
                         ps == SubSeq(s, 1, Len(s) - 1)
                     IN  \/ PreOrderBefore(pr, ps)
                         \/ pr = ps /\ r[Len(r)] < s[Len(s)]

\* a tree walked to its end in which a group with a child is followed by a
\* sibling: root links [a -> g1, b -> g2], g1 links [a -> g3]
C1_Witness ==
    /\ WalkDone /\ IsTree
    /\ Len(grps) = 4
    /\ <<1, 1>> \in Routes /\ <<2>> \in Routes
    /\ grps[3] = GroupEntry(<<2>>) /\ grps[4] = GroupEntry(<<1, 1>>)

(***************************************************************************)
(* C2 (as stated): the group list starts with the root and holds exactly   *)
(* one entry for each hard link to a group on a reachable group, and the   *)
(* dataset list exactly one entry for each hard link to a dataset on a     *)
(* reachable group.                                                        *)
(***************************************************************************)
C2_OnePerLink ==
    WalkDone =>
        /\ grps[1] = [id |-> h5j.root, path |-> <<SLASH>>]
        /\ Len(grps) = 1 + Cardinality(HardLinksOn("groups"))
        /\ Len(dsets) = Cardinality(HardLinksOn("datasets"))

(***************************************************************************)
(* C2 (amended): the group list starts with the root and holds exactly one *)
(* entry {id, parentPath/linkName} for each hard link to a group and each  *)
(* route by which the group holding the link is reached from the root, and *)
(* the dataset list exactly one entry for each hard link to a dataset and  *)
(* each such route; links of another class or collection add no entry and  *)
(* are not followed.  The list returned is the one asked for.              *)
(***************************************************************************)
C2_OnePerRoute ==
    WalkDone =>
        /\ grps[1] = [id |-> h5j.root, path |-> <<SLASH>>]
        /\ Len(grps) = Cardinality(Routes)
        /\ \A r \in Routes :
              Occurrences(grps, GroupEntry(r))
                  = Cardinality({s \in Routes : GroupEntry(s) = GroupEntry(r)})
        /\ Len(dsets) = Cardinality(DatasetRoutes)
        /\ \A q \in DatasetRoutes :
              Occurrences(dsets, DatasetEntry(q))
                  = Cardinality({p \in DatasetRoutes :
                                    DatasetEntry(p) = DatasetEntry(q)})
        /\ wret = [exc |-> "none",
                   val |-> IF otype = "group" THEN grps ELSE dsets]

\* a walk ended on a design where a group holding a dataset is reached by
\* two routes and the root also holds a link that is not followed
C2_Witness ==
    /\ WalkDone
    /\ \E r, s \in Routes : r # s /\ RouteEnd(r).id = RouteEnd(s).id
    /\ Len(dsets) = 2
    /\ Cardinality(HardLinksOn("datasets")) = 1

\* a walk ended on a design with a soft link, an external link and a hard
\* link to a group below the root
C2_WitnessNotFollowed ==
    /\ WalkDone
    /\ Len(grps) = 2
    /\ \E g \in ReachableGroups : \E n \in 1..Len(GroupLinks(g)) :
          GroupLinks(g)[n].class = "H5L_TYPE_SOFT"
    /\ \E g \in ReachableGroups : \E n \in 1..Len(GroupLinks(g)) :
          GroupLinks(g)[n].class = "H5L_TYPE_EXTERNAL"

(***************************************************************************)
(* What the rewrite is compared with.                                      *)
(***************************************************************************)
RewriteDone == rpc = "done"

\* the identifiers of the input: those of its objects, of their parents and
\* of the root
InputIds ==
    {objs0[i].id : i \in 1..Len(objs0)}
    \cup {objs0[i]._pid : i \in {j \in 1..Len(objs0) : "_pid" \in DOMAIN objs0[j]}}
    \cup {root_uuid}

\* the strings at the leaves of a value
RECURSIVE StringLeaves(_)
StringLeaves(val) ==
    IF val.t = "str" THEN {val.v}
    ELSE IF val.t = "list"
      THEN UNION {StringLeaves(val.v[i]) : i \in 1..Len(val.v)}
      ELSE {}

\* the identifier id is a segment of the string s
MentionedIn(id, s) == \E k \in 1..Len(Split(s, SLASH)) : Split(s, SLASH)[k] = id

IsReserved(o) == o._objtype = "attribute" /\ o.name \in ReservedNames

\* the value expected of a rewritten reserved attribute: every leaf string
\* that starts with "datasets/" has its second segment mapped, every other
\* leaf is as it was
RECURSIVE Mapped(_)
Mapped(val) ==
    IF val.t = "list" THEN PyList([i \in 1..Len(val.v) |-> Mapped(val.v[i])])
    ELSE IF val.t = "str" /\ StartsWith(val.v, DatasetsPrefix)
      THEN LET seg == Split(val.v, SLASH)
           IN  PyStr(Join([k \in 1..Len(seg) |->
                              IF k = 2 THEN sub_uuid[seg[2]] ELSE seg[k]], SLASH))
      ELSE val

C4_NoOldIdAnywhere ==
    RewriteDone =>
        /\ \A i \in 1..Len(objs) : objs[i].id # objs0[i].id
        /\ rret.val = sub_uuid[root_uuid]
        /\ \A i \in 1..Len(objs) :
              /\ objs[i].id \notin InputIds
              /\ "_pid" \in DOMAIN objs[i] => objs[i]._pid \notin InputIds
              /\ "value" \in DOMAIN objs[i] =>
                    \A s \in StringLeaves(objs[i].value) :
                        \A id \in InputIds : ~MentionedIn(id, s)

(***************************************************************************)
(* C4 (amended): after the rewrite every object's identifier differs from  *)
(* its old one, the value returned is the new identifier of the root (the  *)
(* identifier every object that had the root's identifier now has), and no *)
(* identifier of the input occurs in the output as an id or as a parent    *)
(* id, nor as the identifier segment of a string that starts with          *)
(* "datasets/" in the value of an attribute named REFERENCE_LIST or        *)
(* DIMENSION_LIST.  Values of attributes of another name, and strings of   *)
(* another prefix, keep the identifiers of the input.                      *)
(***************************************************************************)
C4_NoOldIdRewritten ==
    RewriteDone =>
        /\ \A i \in 1..Len(objs) : objs[i].id # objs0[i].id
        /\ rret.val \notin InputIds
        /\ \A i \in 1..Len(objs) :
              /\ objs0[i].id = root_uuid => objs[i].id = rret.val
              /\ objs[i].id \notin InputIds
              /\ "_pid" \in DOMAIN objs[i] => objs[i]._pid \notin InputIds
              /\ ("value" \in DOMAIN objs[i] /\ IsReserved(objs[i])) =>
                    \A s \in StringLeaves(objs[i].value) :
                        StartsWith(s, DatasetsPrefix) =>
                            Split(s, SLASH)[2] \notin InputIds
              /\ ("value" \in DOMAIN objs[i] /\ ~IsReserved(objs[i])) =>
                    objs[i].value = objs0[i].value

\* a rewrite that returned, of a list that holds the root and a reserved
\* attribute whose value refers to an identifier of the input
C4_Witness ==
    /\ RewriteDone
    /\ \E i \in 1..Len(objs) : objs0[i].id = root_uuid
    /\ \E i \in 1..Len(objs) :
          /\ IsReserved(objs0[i]) /\ "value" \in DOMAIN objs0[i]
          /\ \E s \in StringLeaves(objs0[i].value) :
                StartsWith(s, DatasetsPrefix) /\ Split(s, SLASH)[2] \in InputIds

(***************************************************************************)
(* C5: at every step of the rewrite the map from old to new identifiers    *)
(* only grows: an entry once made is never changed.  The root's entry is   *)
(* made before the first object is processed and is the value returned.    *)
(* Every object processed so far has the mapped identifier and the mapped  *)
(* parent identifier, and the references rewritten in its value carry the  *)
(* mapped identifier, whichever occurrence of the old one came first.      *)
(***************************************************************************)
MapOnlyGrows ==
    \A k \in DOMAIN sub_uuid :
        k \in DOMAIN sub_uuid' /\ sub_uuid'[k] = sub_uuid[k]

MapUsed ==
    /\ rpc \in {"loop", "done"} => root_uuid \in DOMAIN sub_uuid
    /\ rpc = "done" => rret.val = sub_uuid[root_uuid]
    /\ rpc \in {"loop", "done"} =>
          \A i \in 1..(ridx - 1) :
              /\ objs[i].id = sub_uuid[objs0[i].id]
              /\ "_pid" \in DOMAIN objs0[i] => objs[i]._pid = sub_uuid[objs0[i]._pid]
              /\ ("value" \in DOMAIN objs0[i] /\ IsReserved(objs0[i])) =>
                    objs[i].value = Mapped(objs0[i].value)

C5_MapInvariant == [][MapOnlyGrows]_vars /\ []MapUsed

\* a rewrite that returned in which an identifier was met as a parent
\* identifier and in a reference before it was met as an object's own
C5_Witness ==
    /\ RewriteDone
    /\ Len(objs) = 2
    /\ "_pid" \in DOMAIN objs0[1] /\ objs0[1]._pid = objs0[2].id
    /\ objs0[1].id # objs0[2].id
    /\ IsReserved(objs0[1]) /\ "value" \in DOMAIN objs0[1]
    /\ objs[2].id = objs[1]._pid

(***************************************************************************)
(* The round trip: a design is walked, its groups are rewritten as a list  *)
(* of objects, and the rewritten groups are walked from the new root.  An  *)
(* object description of a group carries its identifier, its parent's      *)
(* identifier and its links; the graph maps each identifier to the object  *)
(* that has it.                                                            *)
(***************************************************************************)

\* the first group that holds a hard link to group g, <<>> if there is none
ParentOf(g) ==
    LET holders == {n \in 1..Len(GroupIds) :
                      \E k \in 1..Len(GroupLinks(GroupIds[n])) :
                          /\ IsHardTo(GroupLinks(GroupIds[n])[k], "groups")
                          /\ GroupLinks(GroupIds[n])[k].id = g}
    IN  IF holders = {} THEN <<>>
        ELSE GroupIds[CHOOSE n \in holders : \A m \in holders : n <= m]

\* the object descriptions of the groups of the design h5j
ObjectsOf ==
    [n \in 1..Len(GroupIds) |->
        LET g == GroupIds[n]
            o == WithIds([_objtype |-> "group", name |-> "g"], g, ParentOf(g))
        IN  IF GroupLinks(g) = <<>> THEN o
            ELSE [f \in DOMAIN o \cup {"links"} |->
                     IF f = "links" THEN GroupLinks(g) ELSE o[f]]]

\* the design made of a list of objects and a root identifier
GraphOf(os, root) ==
    [root |-> root,
     groups |-> [g \in {os[i].id : i \in 1..Len(os)} |->
                    os[CHOOSE i \in 1..Len(os) : os[i].id = g]]]

\* the design walked is handed to the rewriter
RoundTripRewrite ==
    /\ wpc = "done" /\ rpc = "idle"
    /\ walk0' = wret
    /\ wpc' = "kept"
    /\ objs' = ObjectsOf
    /\ objs0' = ObjectsOf
    /\ root_uuid' = h5j.root
    /\ rpc' = "start"
    /\ UNCHANGED <<h5j, otype, grps, dsets, stack, wret, sub_uuid, nuuid, ridx, rret>>
    /\ UNCHANGED vvars

\* the rewritten objects are walked from the root identifier returned
RoundTripWalk ==
    /\ wpc = "kept" /\ rpc = "done"
    /\ h5j' = GraphOf(objs, rret.val)
    /\ grps' = <<>>
    /\ dsets' = <<>>
    /\ wret' = [exc |-> "none", val |-> <<>>]
    /\ wpc' = "start"
    /\ rpc' = "used"
    /\ UNCHANGED <<otype, stack, walk0, objs, objs0, root_uuid, sub_uuid, nuuid, ridx, rret>>
    /\ UNCHANGED vvars

InitRoundTrip ==
    /\ h5j \in Designs
    /\ otype \in {"group", "dataset"}
    /\ grps = <<>>
    /\ dsets = <<>>
    /\ stack = <<>>
    /\ wpc = "start"
    /\ wret = [exc |-> "none", val |-> <<>>]
    /\ walk0 = [exc |-> "none", val |-> <<>>]
    /\ RewriterIdle
    /\ ValidatorIdle

NextRoundTrip ==
    \/ OrderObjs \/ TreeWalkerCall \/ TreeWalkerReturn
    \/ RoundTripRewrite
    \/ SubstituteUuids \/ SubstituteObject \/ SubstituteReturn
    \/ RoundTripWalk

SpecRoundTrip == InitRoundTrip /\ [][NextRoundTrip]_vars

RoundTripDone == rpc = "used" /\ wpc \in {"done", "raised"}

PathsOf(entries) == {entries[i].path : i \in 1..Len(entries)}

(***************************************************************************)
(* C6: the walk of the rewritten graph from the new root ends and yields   *)
(* the same set of paths as the walk of the original graph from the        *)
(* original root.                                                          *)
(***************************************************************************)
C6_RoundTrip ==
    RoundTripDone =>
        /\ wret.exc = "none"
        /\ PathsOf(wret.val) = PathsOf(walk0.val)

(***************************************************************************)
(* The validators (src/util.py).  A validator returns nothing or raises:   *)
(* its outcome is [exc |-> "none"] or the exception raised with a message. *)
(* A dict is a record and a missing key is a missing field.  The fields    *)
(* the code only compares with literals ('class', 'charSet', 'strPad')     *)
(* hold strings; 'base' and names, which the code slices or measures, hold *)
(* sequences of characters; the others hold Python values.                 *)
(***************************************************************************)
Raise(exc, msg) == [exc |-> exc, msg |-> msg]
OK == Raise("none", "")

\* the outcome of statements run in order: the first exception raised
FirstError(outcomes) ==
    IF \E i \in 1..Len(outcomes) : outcomes[i].exc # "none"
    THEN outcomes[CHOOSE i \in 1..Len(outcomes) :
                      /\ outcomes[i].exc # "none"
                      /\ \A j \in 1..(i - 1) : outcomes[j].exc = "none"]
    ELSE OK

H5T_STD == <<"H", "5", "T", "_", "S", "T", "D", "_">>
H5T_IEEE == <<"H", "5", "T", "_", "I", "E", "E", "E", "_">>
H5T_VARIABLE == <<"H", "5", "T", "_", "V", "A", "R", "I", "A", "B", "L", "E">>
H5S_UNLIMITED == <<"H", "5", "S", "_", "U", "N", "L", "I", "M", "I", "T", "E", "D">>
H5T_STD_REF_OBJ == H5T_STD \o <<"R", "E", "F", "_", "O", "B", "J">>
H5T_STD_REF_DSETREG == H5T_STD \o <<"R", "E", "F", "_", "D", "S", "E", "T", "R", "E", "G">>

\* a NumPy dtype: its kind ('i', 'u', 'f') and its size in bytes
Dtype(kind, size) == [kind |-> kind, size |-> size]

\* numpy_dtype: conv_map
conv_map ==
    (H5T_STD \o <<"I", "8">>) :> Dtype("i", 1) @@
    (H5T_STD \o <<"U", "8">>) :> Dtype("u", 1) @@
    (H5T_STD \o <<"I", "1", "6">>) :> Dtype("i", 2) @@
    (H5T_STD \o <<"U", "1", "6">>) :> Dtype("u", 2) @@
    (H5T_STD \o <<"I", "3", "2">>) :> Dtype("i", 4) @@
    (H5T_STD \o <<"U", "3", "2">>) :> Dtype("u", 4) @@
    (H5T_STD \o <<"I", "6", "4">>) :> Dtype("i", 8) @@
    (H5T_STD \o <<"U", "6", "4">>) :> Dtype("u", 8) @@
    (H5T_IEEE \o <<"F", "3", "2">>) :> Dtype("f", 4) @@
    (H5T_IEEE \o <<"F", "6", "4">>) :> Dtype("f", 8)

\* h5type[:-2]
DropLastTwo(h5type) == SubSeq(h5type, 1, Len(h5type) - 2)

\* numpy_dtype(h5type): the dtype, or ValueError
numpy_dtype(h5type) ==
    IF DropLastTwo(h5type) \in DOMAIN conv_map
    THEN [exc |-> "none", msg |-> "", dtype |-> conv_map[DropLastTwo(h5type)]]
    ELSE Raise("ValueError", "Invalid predefined datatype")

\* _check_atomic_type(t)
CheckAtomicType(t) ==
    IF t.class = "H5T_STRING" THEN
        IF "charSet" \notin DOMAIN t THEN Raise("KeyError", "Missing charSet string information")
        ELSE IF "length" \notin DOMAIN t THEN Raise("KeyError", "Missing length string information")
        ELSE IF "strPad" \notin DOMAIN t THEN Raise("KeyError", "Missing strPad string information")
        ELSE IF t.charSet \notin {"H5T_CSET_ASCII", "H5T_CSET_UTF8"}
            THEN Raise("ValueError", "Invalid string character set")
        ELSE IF t.strPad \notin {"H5T_STR_NULLTERM", "H5T_STR_NULLPAD", "H5T_STR_SPACEPAD"}
            THEN Raise("ValueError", "Invalid string padding")
        ELSE IF /\ t.length # PyStr(H5T_VARIABLE)
                /\ ~(IsIntegral(t.length) /\ NumLess(PyInt(0), t.length))
            THEN Raise("ValueError", "Invalid string length value")
        ELSE OK
    ELSE IF t.class \in {"H5T_INTEGER", "H5T_FLOAT"} THEN
        IF "base" \notin DOMAIN t
        THEN Raise("KeyError", "H5T_FLOAT/H5T_INTEGER predefined datatype missing")
        ELSE Raise(numpy_dtype(t.base).exc, numpy_dtype(t.base).msg)
    ELSE IF t.class = "H5T_REFERENCE" THEN
        IF "base" \notin DOMAIN t THEN Raise("KeyError", "Datatype reference base missing")
        ELSE IF t.base \notin {H5T_STD_REF_OBJ, H5T_STD_REF_DSETREG}
            THEN Raise("ValueError", "Invalid reference type")
        ELSE OK
    ELSE Raise("NotImplementedError", "HDF5 datatype not supported yet")

\* 0 < rank <= 32: the largest rank of a dataspace or of an array datatype
MaxRankAllowed == 32

\* a name with its upper case letters in lower case
LowerCase(name) == [i \in 1..Len(name) |-> IF name[i] = "X" THEN "x"
                                          ELSE IF name[i] = "Y" THEN "y" ELSE name[i]]

\* the test of the names that takes two names differing in case as one
NameNotUniqueIgnoringCase(fs) ==
    \E i, j \in 1..Len(fs) : i # j /\ LowerCase(fs[i].name) = LowerCase(fs[j].name)

\* check_type: fld_names.count(f) > 1 for some f of fld_names
NameNotUnique(fs) == \E i, j \in 1..Len(fs) : i # j /\ fs[i].name = fs[j].name

\* check_type(t): the loop over the members of a compound datatype calls
\* check_type on each member's datatype
RECURSIVE CheckType(_)
CheckType(t) ==
    IF "class" \notin DOMAIN t THEN Raise("KeyError", "Datatype class missing")
    ELSE IF t.class = "H5T_COMPOUND" THEN
        IF "fields" \notin DOMAIN t THEN Raise("KeyError", "Missing compound datatype member list")
        ELSE IF t.fields.t # "list"
            THEN Raise("TypeError", "Compound datatype members must be in a list")
        ELSE IF Len(t.fields.v) = 0
            THEN Raise("ValueError", "Compound datatype must have at least one member")
        ELSE LET fs == t.fields.v
                 member(f) ==
                     IF "name" \notin DOMAIN f THEN Raise("KeyError", "Missing compound member name")
                     ELSE IF Len(f.name) = 0
                         THEN Raise("ValueError", "Empty name for a compound member")
                     ELSE IF "type" \notin DOMAIN f
                         THEN Raise("KeyError", "Compound member missing datatype")
                     ELSE CheckType(f.type)
                 members == FirstError([i \in 1..Len(fs) |-> member(fs[i])])
             IN  IF members.exc # "none" THEN members
                 ELSE IF NameNotUnique(fs)
                     THEN Raise("ValueError", "Compound member name is not unique")
                 ELSE OK
    ELSE IF t.class = "H5T_VLEN" THEN
        IF "base" \notin DOMAIN t THEN Raise("KeyError", "H5T_VLEN datatype base missing")
        ELSE CheckType(t.base)
    ELSE IF t.class = "H5T_ARRAY" THEN
        IF "dims" \notin DOMAIN t THEN Raise("KeyError", "H5T_ARRAY dimensions missing")
        ELSE IF t.dims.t # "list"
            THEN Raise("TypeError", "H5T_ARRAY dimensions must be in a list")
        ELSE IF ~(0 < Len(t.dims.v) /\ Len(t.dims.v) <= MaxRankAllowed)
            THEN Raise("ValueError", "Invalid H5T_ARRAY rank")
        ELSE LET ds == t.dims.v
                 dim(d) == IF ~IsIntegral(d)
                               THEN Raise("TypeError", "H5T_ARRAY dimension: Must be integer")
                           ELSE IF NumLeq(d, PyInt(0))
                               THEN Raise("ValueError", "H5T_ARRAY dimension: Dimension size must be positive")
                           ELSE OK
                 dims == FirstError([i \in 1..Len(ds) |-> dim(ds[i])])
             IN  IF dims.exc # "none" THEN dims
                 ELSE IF "base" \notin DOMAIN t
                     THEN Raise("KeyError", "H5T_ARRAY datatype base missing")
                 ELSE CheckType(t.base)
    ELSE CheckAtomicType(t)

\* np.iinfo(dtype).min and .max of an integer dtype of 8 * size bits
IInfoMin(dtype) == IF dtype.kind = "u" THEN Num(0, 0) ELSE Num(1 - 8 * dtype.size, 0)
IInfoMax(dtype) == IF dtype.kind = "u" THEN Num(8 * dtype.size, -1)
                   ELSE Num(8 * dtype.size - 1, -1)

\* np.iinfo(np.uint64).max
uint64max == IInfoMax(Dtype("u", 8))

\* check_shape: the body of the loop over maxdims, without the comparison
\* of the entry with its dims counterpart
CheckMaxdimNoCompare(dim, d) ==
    IF IsIntegral(d) THEN
        IF NumLeq(d, PyInt(0)) \/ NumLeq(uint64max, d)
        THEN Raise("ValueError", "Dataspace maxdims: Dimension size out of range")
        ELSE OK
    ELSE IF IsString(d) /\ d # PyStr(H5S_UNLIMITED)
        THEN Raise("ValueError", "Dataspace maxdims: Unlimited dimension size value invalid")
    ELSE OK

\* check_shape: the body of the loop over maxdims, d = shape['maxdims'][i]
\* and dim = shape['dims'][i]
CheckMaxdim(dim, d) ==
    IF IsIntegral(d) THEN
        IF NumLeq(d, PyInt(0)) \/ NumLeq(uint64max, d)
        THEN Raise("ValueError", "Dataspace maxdims: Dimension size out of range")
        ELSE IF NumLess(d, dim)
            THEN Raise("ValueError", "dims greater than maxdims")
        ELSE OK
    ELSE IF IsString(d) /\ d # PyStr(H5S_UNLIMITED)
        THEN Raise("ValueError", "Dataspace maxdims: Unlimited dimension size value invalid")
    ELSE OK

\* check_shape(shape)
CheckShape(shape) ==
    IF "class" \notin DOMAIN shape THEN Raise("KeyError", "Dataspace class missing")
    ELSE IF shape.class \notin {"H5S_NULL", "H5S_SCALAR", "H5S_SIMPLE"}
        THEN Raise("ValueError", "Invalid dataspace class")
    ELSE IF shape.class = "H5S_SIMPLE" THEN
        IF "dims" \notin DOMAIN shape
        THEN Raise("KeyError", "Missing dataspace dims information")
        ELSE
        LET keys == IF "maxdims" \in DOMAIN shape THEN <<"dims", "maxdims">> ELSE <<"dims">>
            key(k) == IF shape[k].t # "list"
                          THEN Raise("TypeError", "Dataspace dims or maxdims must be a list")
                      ELSE IF ~(0 < Len(shape[k].v) /\ Len(shape[k].v) <= MaxRankAllowed)
                          THEN Raise("ValueError", "Invalid rank")
                      ELSE OK
            lists == FirstError([i \in 1..Len(keys) |-> key(keys[i])])
        IN  IF lists.exc # "none" THEN lists
            ELSE
            LET dims == shape.dims.v
                dim(d) == IF ~IsIntegral(d)
                              THEN Raise("TypeError", "Dataspace dims: Must be integer")
                          ELSE IF NumLess(d, PyInt(0)) \/ NumLess(uint64max, d)
                              THEN Raise("ValueError", "Dataspace dims: Size out of range")
                          ELSE OK
                sizes == FirstError([i \in 1..Len(dims) |-> dim(dims[i])])
            IN  IF sizes.exc # "none" THEN sizes
                ELSE IF "maxdims" \notin DOMAIN shape THEN OK
                ELSE IF Len(dims) # Len(shape.maxdims.v)
                    THEN Raise("ValueError", "Dataspace dims and maxdims not of same rank")
                ELSE
                FirstError([i \in 1..Len(dims) |-> CheckMaxdim(dims[i], shape.maxdims.v[i])])
    ELSE IF "dims" \in DOMAIN shape \/ "maxdims" \in DOMAIN shape
        THEN Raise("KeyError", "dims and maxdims not allowed for dataspace")
    ELSE OK

\* np.finfo(dtype).min and .max of a float dtype: about -2^128 and 2^128
\* for 4 bytes, -2^1024 and 2^1024 for 8 bytes
FInfoMax(dtype) == PyFloat(IF dtype.size = 4 THEN 128 ELSE 1024, 0)
FInfoMin(dtype) == PyFloat(0 - FInfoMax(dtype).v.b, 0)

\* np.allclose([x], [v], rtol=1.e-8) for a bound x of a float dtype: the
\* numbers written from the base of x are within 1e-8 of it, no other is
AllClose(x, v) == x.v.b = v.v.b

\* the mutant of value_check_factory that returns check_pass for every
\* class it has no test for
ValueCheckFactoryPassOthers(cls, base) ==
    IF cls = "H5T_STRING" THEN [exc |-> "none", msg |-> "", cond |-> "check_string"]
    ELSE IF cls = "H5T_INTEGER" THEN
        IF numpy_dtype(base).exc # "none" THEN numpy_dtype(base)
        ELSE IF numpy_dtype(base).dtype.kind = "f"
            THEN Raise("ValueError", "Invalid integer data type")
        ELSE [exc |-> "none", msg |-> "", cond |-> "check_integer",
              minval |-> IInfoMin(numpy_dtype(base).dtype),
              maxval |-> IInfoMax(numpy_dtype(base).dtype)]
    ELSE IF cls = "H5T_FLOAT" THEN
        IF numpy_dtype(base).exc # "none" THEN numpy_dtype(base)
        ELSE IF numpy_dtype(base).dtype.kind # "f"
            THEN Raise("ValueError", "data type not inexact")
        ELSE [exc |-> "none", msg |-> "", cond |-> "check_real",
              minval |-> FInfoMin(numpy_dtype(base).dtype),
              maxval |-> FInfoMax(numpy_dtype(base).dtype)]
    ELSE [exc |-> "none", msg |-> "", cond |-> "check_pass"]

\* value_check_factory(cls, base): the test returned, or the exception
ValueCheckFactory(cls, base) ==
    IF cls = "H5T_STRING" THEN [exc |-> "none", msg |-> "", cond |-> "check_string"]
    ELSE IF cls = "H5T_INTEGER" THEN
        IF numpy_dtype(base).exc # "none" THEN numpy_dtype(base)
        ELSE IF numpy_dtype(base).dtype.kind = "f"
            THEN Raise("ValueError", "Invalid integer data type")
        ELSE [exc |-> "none", msg |-> "", cond |-> "check_integer",
              minval |-> IInfoMin(numpy_dtype(base).dtype),
              maxval |-> IInfoMax(numpy_dtype(base).dtype)]
    ELSE IF cls = "H5T_FLOAT" THEN
        IF numpy_dtype(base).exc # "none" THEN numpy_dtype(base)
        ELSE IF numpy_dtype(base).dtype.kind # "f"
            THEN Raise("ValueError", "data type not inexact")
        ELSE [exc |-> "none", msg |-> "", cond |-> "check_real",
              minval |-> FInfoMin(numpy_dtype(base).dtype),
              maxval |-> FInfoMax(numpy_dtype(base).dtype)]
    ELSE IF cls \in {"H5T_VLEN", "H5T_COMPOUND"}
        THEN [exc |-> "none", msg |-> "", cond |-> "check_pass"]
    ELSE Raise("NotImplementedError", "HDF5 datatype class is not supported")

\* check_integer(v) with the comparison of the upper bound left out
CheckIntegerNoMax(f, v) ==
    IF ~IsIntegral(v) THEN Raise("TypeError", "Value datatype error: Not an integer")
    ELSE IF NumLess(v, f.minval)
        THEN Raise("ValueError", "Value out of range for datatype")
    ELSE OK

\* check_integer(v)
CheckInteger(f, v) ==
    IF ~IsIntegral(v) THEN Raise("TypeError", "Value datatype error: Not an integer")
    ELSE IF NumLess(v, f.minval) \/ NumLess(f.maxval, v)
        THEN Raise("ValueError", "Value out of range for datatype")
    ELSE OK

\* check_string(v), check_integer(v), check_real(v), check_pass(v)
Cond(f, v) ==
    IF f.cond = "check_string" THEN
        IF ~IsString(v) THEN Raise("TypeError", "Value datatype error: Not a string") ELSE OK
    ELSE IF f.cond = "check_integer" THEN CheckInteger(f, v)
    ELSE IF f.cond = "check_real" THEN
        IF ~IsReal(v) THEN Raise("TypeError", "Value datatype error: Not a float")
        ELSE IF \/ NumLess(v, f.minval) /\ ~AllClose(f.minval, v)
                \/ NumLess(f.maxval, v) /\ ~AllClose(f.maxval, v)
            THEN Raise("ValueError", "Value out of range for datatype")
        ELSE OK
    ELSE OK

\* value_check(iter_, cond): the items in order, a list item by a nested call
RECURSIVE ValueCheck(_, _)
ValueCheck(iter_, f) ==
    IF iter_ = <<>> THEN OK
    ELSE LET n == Head(iter_)
             first == IF n.t = "list" THEN ValueCheck(n.v, f) ELSE Cond(f, n)
         IN  IF first.exc # "none" THEN first ELSE ValueCheck(Tail(iter_), f)


\* one statement after another: b runs when a has not raised
Then(a, b) == IF a.exc # "none" THEN a ELSE b

\* np.asarray(value).shape of a list: lists of lists of one shape make one
\* more dimension, any other items (scalars, or lists of unequal shapes,
\* which NumPy keeps as objects) make an array of one dimension
RECURSIVE NpShape(_)
NpShape(items) ==
    IF /\ items # <<>>
       /\ \A i \in 1..Len(items) : items[i].t = "list"
       /\ \A i \in 1..Len(items) : NpShape(items[i].v) = NpShape(items[1].v)
    THEN <<Len(items)>> \o NpShape(items[1].v)
    ELSE <<Len(items)>>

\* np.prod of a list of integers is computed in 64 bit two's complement: a
\* number is 8 bytes, the least significant first
Bytes(n) == [i \in 1..8 |-> IF i <= 4 THEN (n \div (256 ^ (i - 1))) % 256 ELSE 0]

\* the bytes of an integer d with 0 < d <= 0xffffffff
BytesOf(d) ==
    IF d.v.b < 8 THEN Bytes((IF d.v.b = 0 THEN 0 ELSE 2 ^ d.v.b) + d.v.d)
    ELSE <<d.v.d % 256>> \o SubSeq(Bytes(2 ^ (d.v.b - 8) + (d.v.d \div 256)), 1, 7)

\* the sum of the products of the bytes of a and b that weigh 256^(k-1)
Column(a, b, k) ==
    LET RECURSIVE Sum(_)
        Sum(i) == IF i > k THEN 0 ELSE a[i] * b[k + 1 - i] + Sum(i + 1)
    IN  Sum(1)

\* a * b modulo 2^64
Times(a, b) ==
    LET RECURSIVE Carry(_)
        Carry(k) == IF k = 1 THEN 0 ELSE (Column(a, b, k - 1) + Carry(k - 1)) \div 256
    IN  [k \in 1..8 |-> (Column(a, b, k) + Carry(k)) % 256]

\* np.prod(dims)
RECURSIVE Prod(_)
Prod(dims) == IF dims = <<>> THEN Bytes(1) ELSE Times(BytesOf(Head(dims)), Prod(Tail(dims)))

\* np.prod(dims) > 0xffffffff, the product being a signed 64 bit integer
ProdTooLarge(dims) ==
    /\ Prod(dims)[8] < 128
    /\ \E i \in 5..8 : Prod(dims)[i] # 0

\* validate_h5json: the value check
\* None, what h5j['type'].get('base', None) is without a base
None == <<>>

CheckValue(obj, val) ==
    IF "type" \notin DOMAIN obj THEN Raise("KeyError", "type")
    ELSE LET t == obj.type
             f == ValueCheckFactory(t.class, IF "base" \in DOMAIN t THEN t.base ELSE None)
         IN  IF f.exc # "none" THEN Raise(f.exc, f.msg)
             ELSE IF val = None
                 THEN Raise("UnboundLocalError", "local variable val referenced before assignment")
             ELSE ValueCheck(val.v, f)

ValueStage(obj) ==
    IF "value" \notin DOMAIN obj THEN OK
    ELSE IF "shape" \notin DOMAIN obj THEN Raise("KeyError", "shape")
    ELSE IF obj.shape.class = "H5S_SIMPLE" THEN
        IF obj.value.t # "list"
        THEN Raise("TypeError", "Value(s) must be in a list for dataspace")
        ELSE IF [i \in 1..Len(NpShape(obj.value.v)) |-> PyInt(NpShape(obj.value.v)[i])]
                    # obj.shape.dims.v
            THEN Raise("ValueError", "Reported and actual shape mismatch")
        ELSE CheckValue(obj, obj.value)
    ELSE IF obj.shape.class = "H5S_SCALAR" THEN
        IF obj.value.t = "list"
        THEN Raise("TypeError", "Value cannot be in a list for dataspace")
        ELSE CheckValue(obj, PyList(<<obj.value>>))
    ELSE CheckValue(obj, None)

\* validate_h5json: the name check
NameStage(obj) ==
    IF "name" \notin DOMAIN obj THEN OK
    ELSE IF ~IsString(obj.name) THEN Raise("TypeError", "HDF5 object name must be a string")
    ELSE IF Len(obj.name.v) = 0 THEN Raise("ValueError", "HDF5 object name is an empty string")
    ELSE IF \E i \in 1..Len(obj.name.v) : obj.name.v[i] = SLASH
        THEN Raise("ValueError", "HDF5 object name contains / character")
    ELSE OK

\* the largest size of a chunk dimension and of a chunk
MaxChunk == Num(32, -1)

\* the test of one axis, which also rejects a chunk as large as the maximum
ChunkAxisStrict(d, c) ==
    IF IsString(d) THEN OK
    ELSE IF NumLeq(d, c) THEN Raise("ValueError", "Chunking dim size greater than max size")
    ELSE OK

\* the body of the loop over max_dims: d = max_dims[n], c = the chunk
\* dimension of the axis
ChunkAxis(d, c) ==
    IF IsString(d) THEN OK
    ELSE IF NumLess(d, c) THEN Raise("ValueError", "Chunking dim size greater than max size")
    ELSE OK

\* the chunk against the shape of the dataset
ChunkFits(shape, chunk) ==
    IF shape.class = "H5S_SIMPLE" THEN
        IF Len(shape.dims.v) # Len(chunk)
        THEN Raise("ValueError", "Chunk rank must be same as shape rank")
        ELSE LET max_dims == IF "maxdims" \in DOMAIN shape THEN shape.maxdims.v
                             ELSE shape.dims.v
             IN  FirstError([n \in 1..Len(max_dims) |-> ChunkAxis(max_dims[n], chunk[n])])
    ELSE Raise("ValueError", "This dataspace cannot be chunked")

\* validate_h5json: the layout check
LayoutStage(obj, cp) ==
    IF "layout" \notin DOMAIN cp THEN OK
    ELSE IF "class" \notin DOMAIN cp.layout THEN Raise("KeyError", "Missing layout class")
    ELSE IF cp.layout.class \notin {"H5D_CONTIGUOUS", "H5D_CHUNKED", "H5D_COMPACT"}
        THEN Raise("ValueError", "Invalid layout class")
    ELSE IF cp.layout.class = "H5D_CHUNKED" THEN
        IF "dims" \notin DOMAIN cp.layout THEN Raise("KeyError", "Missing chunking dimensions")
        ELSE IF cp.layout.dims.t # "list"
            THEN Raise("TypeError", "Chunking dimensions must be a list")
        ELSE LET chunk == cp.layout.dims.v
                 dim(d) == IF ~IsIntegral(d)
                               THEN Raise("TypeError", "Chunking dimension must be integer")
                           ELSE IF ~(NumLess(PyInt(0), d) /\ NumLeq(d, MaxChunk))
                               THEN Raise("ValueError", "Chunk dimension value must be positive integer smaller than 2^32")
                           ELSE OK
             IN  Then(FirstError([i \in 1..Len(chunk) |-> dim(chunk[i])]),
                      IF ProdTooLarge(chunk)
                      THEN Raise("ValueError", "Number of elements in a chunk must be less than 2^32")
                      ELSE IF "shape" \notin DOMAIN obj THEN Raise("KeyError", "shape")
                      ELSE ChunkFits(obj.shape, chunk))
    ELSE IF "dims" \in DOMAIN cp.layout
        THEN Raise("KeyError", "dims not allowed for layout class")
    ELSE OK

\* type(f) is dict: a filter is a record, any other item a Python value
IsDict(f) == "t" \notin DOMAIN f

\* the check of a scale-offset filter without the tests of the datatype
\* class of the object
CheckScaleOffsetAnyClass(obj, f) ==
    IF "scaleType" \notin DOMAIN f THEN Raise("KeyError", "Filter missing scale type")
    ELSE IF f.scaleType \notin {"H5Z_SO_FLOAT_DSCALE", "H5Z_SO_FLOAT_ESCALE", "H5Z_SO_INT"}
        THEN Raise("ValueError", "Filter invalid scale-offset filter type")
    ELSE IF "scaleOffset" \notin DOMAIN f
        THEN Raise("KeyError", "Filter missing scale offset")
    ELSE IF f.scaleType = "H5Z_SO_FLOAT_ESCALE"
        THEN Raise("ValueError", "Scale-offset filter type not supported yet")
    ELSE IF ~IsIntegral(f.scaleOffset)
        THEN Raise("TypeError", "Scale offset value must be integer")
    ELSE IF NumLess(f.scaleOffset, PyInt(0))
        THEN Raise("ValueError", "Scale offset value cannot be negative")
    ELSE OK

\* validate_h5json: the check of a scale-offset filter
CheckScaleOffset(obj, f) ==
    IF "scaleType" \notin DOMAIN f THEN Raise("KeyError", "Filter missing scale type")
    ELSE IF f.scaleType \notin {"H5Z_SO_FLOAT_DSCALE", "H5Z_SO_FLOAT_ESCALE", "H5Z_SO_INT"}
        THEN Raise("ValueError", "Filter invalid scale-offset filter type")
    ELSE IF "scaleOffset" \notin DOMAIN f
        THEN Raise("KeyError", "Filter missing scale offset")
    ELSE IF f.scaleType # "H5Z_SO_FLOAT_ESCALE" /\ "type" \notin DOMAIN obj
        THEN Raise("KeyError", "type")
    ELSE IF f.scaleType = "H5Z_SO_INT" /\ obj.type.class # "H5T_INTEGER"
        THEN Raise("ValueError", "Scale-offset filter type only allowed for integer datatypes")
    ELSE IF f.scaleType = "H5Z_SO_FLOAT_DSCALE" /\ obj.type.class # "H5T_FLOAT"
        THEN Raise("ValueError", "Scale-offset filter type only allowed for floating point datatypes")
    ELSE IF f.scaleType = "H5Z_SO_FLOAT_ESCALE"
        THEN Raise("ValueError", "Scale-offset filter type not supported yet")
    ELSE IF ~IsIntegral(f.scaleOffset)
        THEN Raise("TypeError", "Scale offset value must be integer")
    ELSE IF NumLess(f.scaleOffset, PyInt(0))
        THEN Raise("ValueError", "Scale offset value cannot be negative")
    ELSE OK

\* validate_h5json: the body of the loop over the filters
CheckFilter(obj, f) ==
    IF ~IsDict(f) THEN Raise("TypeError", "Filter info not in a dict")
    ELSE IF "class" \notin DOMAIN f THEN Raise("KeyError", "Filter class missing")
    ELSE IF "id" \notin DOMAIN f THEN Raise("KeyError", "Filter id missing")
    ELSE IF ~IsIntegral(f.id) THEN Raise("TypeError", "Filter id must be integer")
    ELSE IF NumLeq(f.id, PyInt(0)) THEN Raise("ValueError", "Filter id must be positive")
    ELSE IF f.class = "H5Z_FILTER_DEFLATE" THEN
        IF "level" \notin DOMAIN f THEN Raise("KeyError", "Filter missing deflate level")
        ELSE IF ~IsIntegral(f.level)
            THEN Raise("TypeError", "Filter deflate level must be integer")
        ELSE IF ~(NumLeq(PyInt(0), f.level) /\ NumLeq(f.level, PyInt(9)))
            THEN Raise("ValueError", "Filter deflate level out of range")
        ELSE OK
    ELSE IF f.class \in {"H5Z_FILTER_FLETCHER32", "H5Z_FILTER_NBIT", "H5Z_FILTER_SHUFFLE",
                         "H5Z_FILTER_SZIP"} THEN OK
    ELSE IF f.class = "H5Z_FILTER_SCALEOFFSET" THEN CheckScaleOffset(obj, f)
    ELSE IF f.class = "H5Z_FILTER_USER" THEN
        IF "parameters" \notin DOMAIN f
        THEN Raise("KeyError", "Filter user filter missing parameters")
        ELSE OK
    ELSE Raise("ValueError", "Invalid filter class")

\* validate_h5json: the filters check
FiltersStage(obj, cp) ==
    IF "filters" \notin DOMAIN cp THEN OK
    ELSE IF cp.filters.t # "list" THEN Raise("TypeError", "Filters must be in a list")
    ELSE IF /\ "layout" \in DOMAIN cp
            /\ cp.layout.class # "H5D_CHUNKED"
            /\ Len(cp.filters.v) # 0
        THEN Raise("ValueError", "Filters allowed only with chunked layout")
    ELSE LET fltrs == cp.filters.v
         IN  Then(FirstError([n \in 1..Len(fltrs) |-> CheckFilter(obj, fltrs[n])]),
                  IF /\ \E n \in 1..Len(fltrs) : fltrs[n].class = "H5Z_FILTER_SCALEOFFSET"
                     /\ \E n \in 1..Len(fltrs) : fltrs[n].class = "H5Z_FILTER_FLETCHER32"
                  THEN Raise("ValueError", "Scale-offset compression filter cannot be combined with the Fletcher32 checksum filter")
                  ELSE OK)

\* validate_h5json: the creation properties
CreationPropertiesStage(obj) ==
    IF "creationProperties" \notin DOMAIN obj THEN OK
    ELSE LET cp == obj.creationProperties
         IN  Then(IF /\ "nameCharEncoding" \in DOMAIN cp
                     /\ cp.nameCharEncoding \notin {"H5T_CSET_UTF8", "H5T_CSET_ASCII"}
                  THEN Raise("ValueError", "Invalid character encoding name")
                  ELSE OK,
             Then(LayoutStage(obj, cp),
             Then(FiltersStage(obj, cp),
                  IF "fillValue" \in DOMAIN cp
                  THEN CheckValue(obj, PyList(<<cp.fillValue>>))
                  ELSE OK)))

\* the mutant of validate_h5json that checks the name before the value
ValidateH5jsonNameFirst(obj, reqd) ==
    Then(IF \E i \in 1..Len(reqd) : reqd[i] \notin DOMAIN obj
         THEN Raise("KeyError", "Required but missing")
         ELSE OK,
    Then(IF "shape" \in DOMAIN obj THEN CheckShape(obj.shape) ELSE OK,
    Then(IF "type" \in DOMAIN obj THEN CheckType(obj.type) ELSE OK,
    Then(NameStage(obj),
    Then(ValueStage(obj),
         CreationPropertiesStage(obj))))))

\* validate_h5json(h5j, reqd)
ValidateH5json(obj, reqd) ==
    Then(IF \E i \in 1..Len(reqd) : reqd[i] \notin DOMAIN obj
         THEN Raise("KeyError", "Required but missing")
         ELSE OK,
    Then(IF "shape" \in DOMAIN obj THEN CheckShape(obj.shape) ELSE OK,
    Then(IF "type" \in DOMAIN obj THEN CheckType(obj.type) ELSE OK,
    Then(ValueStage(obj),
    Then(NameStage(obj),
         CreationPropertiesStage(obj))))))

(***************************************************************************)
(* The datatype validator on the descriptors of the integer and float      *)
(* classes: a base is a stem followed by a suffix.                         *)
(***************************************************************************)
Stems == DOMAIN conv_map \cup {H5T_STD \o <<"I", "2", "4">>, H5T_IEEE \o <<"F", "1", "6">>,
                               H5T_STD, <<>>}
Endianness == {<<"L", "E">>, <<"B", "E">>}
Suffixes == Endianness \cup {<<"X", "X">>, <<"l", "e">>, <<"L">>, <<>>, <<"L", "E", "E">>}
Bases == {stem \o suffix : stem \in Stems, suffix \in Suffixes}
NumericTypes ==
    {[class |-> c, base |-> b] : c \in {"H5T_INTEGER", "H5T_FLOAT"}, b \in Bases}
        \cup {[class |-> c] : c \in {"H5T_INTEGER", "H5T_FLOAT"}}

CheckTypeCall ==
    /\ vpc = "type"
    /\ vout' = CheckType(vin)
    /\ vpc' = "done"
    /\ UNCHANGED <<wvars, rvars, vin>>

InitType ==
    /\ WalkerIdle
    /\ RewriterIdle
    /\ vin \in NumericTypes
    /\ vout = OK
    /\ vpc = "type"

NextType == CheckTypeCall

SpecType == InitType /\ [][NextType]_vars

(***************************************************************************)
(* The dataspace validator on the shapes of at most MaxRank dimensions.    *)
(***************************************************************************)

\* the largest rank of the dims and maxdims the validators are run on
MaxRank == 2

\* the sequences of 1 to n elements of S
SeqsUpTo(S, n) == UNION {[1..k -> S] : k \in 1..n}

DimSizes == {PyInt(0), PyInt(1), PyInt(2), Num(64, -1)}
MaxdimSizes == {PyStr(H5S_UNLIMITED), PyInt(-1), PyInt(0), PyInt(1), PyInt(2),
                Num(64, -2), Num(64, -1)}

SimpleShapes ==
    {[class |-> "H5S_SIMPLE", dims |-> PyList(d)] : d \in SeqsUpTo(DimSizes, MaxRank)}
        \cup {[class |-> "H5S_SIMPLE", dims |-> PyList(d), maxdims |-> PyList(m)] :
                  d \in SeqsUpTo(DimSizes, MaxRank), m \in SeqsUpTo(MaxdimSizes, MaxRank)}

\* the shapes of the other classes, and the malformed ones
OtherShapes ==
    {[class |-> c] : c \in {"H5S_NULL", "H5S_SCALAR", "H5S_SIMPLE", "H5S_COMPLEX"}}
        \cup {[class |-> c, dims |-> PyList(<<PyInt(1)>>)] : c \in {"H5S_NULL", "H5S_SCALAR"}}
        \cup {[class |-> "H5S_SCALAR", maxdims |-> PyList(<<PyInt(1)>>)],
              [dims |-> PyList(<<PyInt(1)>>)],
              [class |-> "H5S_SIMPLE", dims |-> PyInt(1)],
              [class |-> "H5S_SIMPLE", dims |-> PyList(<<>>)],
              [class |-> "H5S_SIMPLE", dims |-> PyList(<<PyInt(1)>>), maxdims |-> PyStr(H5S_UNLIMITED)],
              [class |-> "H5S_SIMPLE", dims |-> PyList(<<PyInt(1)>>), maxdims |-> PyList(<<>>)],
              [class |-> "H5S_SIMPLE", dims |-> PyList(<<PyFloat(0, 1)>>)],
              [class |-> "H5S_SIMPLE", dims |-> PyList(<<PyInt(-1)>>)],
              [class |-> "H5S_SIMPLE", dims |-> PyList(<<Num(64, 0)>>)],
              [class |-> "H5S_SIMPLE", dims |-> PyList(<<PyInt(1)>>),
               maxdims |-> PyList(<<PyStr(<<"x">>)>>)],
              [class |-> "H5S_SIMPLE", dims |-> PyList(<<PyInt(1)>>),
               maxdims |-> PyList(<<PyFloat(0, 0)>>)]}

CheckShapeCall ==
    /\ vpc = "shape"
    /\ vout' = CheckShape(vin)
    /\ vpc' = "done"
    /\ UNCHANGED <<wvars, rvars, vin>>

InitShape ==
    /\ WalkerIdle
    /\ RewriterIdle
    /\ vin \in SimpleShapes \cup OtherShapes
    /\ vout = OK
    /\ vpc = "shape"

NextShape == CheckShapeCall

SpecShape == InitShape /\ [][NextShape]_vars

\* the bases of the supported enumeration: the 8, 16, 32 and 64 bit signed
\* and unsigned integers and the 32 and 64 bit floats, little or big endian
SupportedBases ==
    {H5T_STD \o <<k>> \o w \o e : k \in {"I", "U"},
                                 w \in {<<"8">>, <<"1", "6">>, <<"3", "2">>, <<"6", "4">>},
                                 e \in Endianness}
        \cup {H5T_IEEE \o <<"F">> \o w \o e : w \in {<<"3", "2">>, <<"6", "4">>},
                                              e \in Endianness}

TypeDone == vpc = "done" /\ "base" \in DOMAIN vin

\* C7: the datatype validator, on a descriptor of the integer or float
\* class, succeeds when the base is in the supported enumeration and fails
\* for every other base string, a known stem followed by two characters
\* that are not an endianness suffix included.
C7_SupportedBasesOnly ==
    TypeDone => (vout.exc = "none" <=> vin.base \in SupportedBases)

\* the validator has accepted a known stem followed by two characters that
\* are not an endianness suffix
C7_BogusSuffixAccepted ==
    /\ TypeDone
    /\ vin.base = H5T_STD \o <<"I", "3", "2", "X", "X">>
    /\ vout.exc = "none"

\* check_shape has returned on a shape of the Simple class whose dims and
\* maxdims are lists of the same rank, the dims entries integers
ShapeDone ==
    /\ vpc = "done"
    /\ vin \in SimpleShapes
    /\ "maxdims" \in DOMAIN vin
    /\ Len(vin.maxdims.v) = Len(vin.dims.v)

Axes == 1..Len(vin.dims.v)
DimOf(i) == vin.dims.v[i]
MaxdimOf(i) == vin.maxdims.v[i]
IsUnlimited(i) == MaxdimOf(i) = PyStr(H5S_UNLIMITED)

\* maxdims[i] is the unlimited marker or an integer >= dims[i]
AtLeastDim(i) == IsUnlimited(i) \/ NumLeq(DimOf(i), MaxdimOf(i))

\* maxdims[i] is an integer below dims[i]
BelowDim(i) == ~IsUnlimited(i) /\ NumLess(MaxdimOf(i), DimOf(i))

\* maxdims[i] is a size the validator takes: positive and below 2^64 - 1
InRange(i) == NumLess(PyInt(0), MaxdimOf(i)) /\ NumLess(MaxdimOf(i), Num(64, -1))

DimsGreater == Raise("ValueError", "dims greater than maxdims")
MaxdimOutOfRange == Raise("ValueError", "Dataspace maxdims: Dimension size out of range")

\* C8 as stated: maxdims entries that are unlimited or >= dims always
\* validate, dims[i] = maxdims[i] = 0 included, and one entry lowered below
\* its dims counterpart always gives the dims-exceed-maxdims error.
C8_AsStated ==
    ShapeDone =>
        /\ (\A i \in Axes : AtLeastDim(i)) => vout = OK
        /\ \A i \in Axes :
               (BelowDim(i) /\ \A j \in Axes \ {i} : AtLeastDim(j)) => vout = DimsGreater

\* C8: on a Simple dataspace with dims entries in 0..2^64-1 and maxdims of
\* the same rank, validation succeeds when every maxdims entry is the
\* unlimited marker or an integer >= dims[i] that is positive and below
\* 2^64 - 1.  When a single entry is not, the others being so: an entry that
\* is 0 or negative, or 2^64 - 1 or more, fails with the size-out-of-range
\* error (dims[i] = maxdims[i] = 0 is such a case), and an entry in that
\* range lowered below its dims counterpart fails with the
\* dims-greater-than-maxdims error.
C8_PositiveMaxdims ==
    ShapeDone =>
        /\ (\A i \in Axes : AtLeastDim(i) /\ (IsUnlimited(i) \/ InRange(i))) => vout = OK
        /\ \A i \in Axes :
               (/\ ~IsUnlimited(i)
                /\ \A j \in Axes \ {i} : AtLeastDim(j) /\ (IsUnlimited(j) \/ InRange(j)))
               => /\ ~InRange(i) => vout = MaxdimOutOfRange
                  /\ (InRange(i) /\ BelowDim(i)) => vout = DimsGreater

\* a maxdims entry lowered to a positive size below its dims counterpart,
\* after an axis with dims = maxdims, has been rejected
C8_Witness ==
    /\ ShapeDone
    /\ vin.dims.v = <<PyInt(1), PyInt(2)>>
    /\ vin.maxdims.v = <<PyInt(1), PyInt(1)>>
    /\ vout = DimsGreater

\* dims[i] = maxdims[i] = 0 has been rejected
C8_ZeroRejected ==
    /\ ShapeDone
    /\ vin.dims.v = <<PyInt(0)>>
    /\ vin.maxdims.v = <<PyInt(0)>>
    /\ vout = MaxdimOutOfRange

(***************************************************************************)
(* The value conformance checker on the integer class: validate_h5json     *)
(* builds the test from the class and the base and applies it to the       *)
(* value with value_check.                                                 *)
(***************************************************************************)

\* the most items of a value
MaxValueLen == 2

IntegerBases == {b \in SupportedBases : conv_map[DropLastTwo(b)].kind # "f"}

\* the numbers next to a power of two that bounds an integer type, a number
\* between 2^32 and 2^63, two floats, a string and True
Leaves ==
    {Num(b, d) : b \in {-63, -31, -15, -7, 0, 7, 8, 15, 16, 31, 32, 63, 64}, d \in {-1, 0}}
        \cup {Num(38, 0), PyFloat(0, 1), PyFloat(64, 0), PyStr(<<"1">>), PyBool(1)}

\* the leaves of the values of more than one item
FewLeaves == {PyInt(0), Num(64, 0), Num(-63, -1), PyFloat(0, 1)}

\* the values: a list of one leaf, and the lists of few leaves, flat or with
\* the first items in a nested list
Values ==
    {<<x>> : x \in Leaves}
        \cup UNION {[1..k -> FewLeaves] : k \in 2..MaxValueLen}
        \cup UNION {{<<PyList(SubSeq(q, 1, k - 1)), q[k]>> : q \in [1..k -> FewLeaves]} :
                        k \in 2..MaxValueLen}

ValueCheckCall ==
    /\ vpc = "value"
    /\ vout' = LET f == ValueCheckFactory(vin.class, vin.base)
               IN  IF f.exc # "none" THEN Raise(f.exc, f.msg)
                   ELSE ValueCheck(vin.value, f)
    /\ vpc' = "done"
    /\ UNCHANGED <<wvars, rvars, vin>>

InitValue ==
    /\ WalkerIdle
    /\ RewriterIdle
    /\ vin \in {[class |-> "H5T_INTEGER", base |-> b, value |-> v] :
                    b \in IntegerBases, v \in Values}
    /\ vout = OK
    /\ vpc = "value"

NextValue == ValueCheckCall

SpecValue == InitValue /\ [][NextValue]_vars

ValueDone == vpc = "done"

\* the leaves of a value in the order of a depth-first walk
RECURSIVE LeavesOf(_)
LeavesOf(items) ==
    IF items = <<>> THEN <<>>
    ELSE (IF Head(items).t = "list" THEN LeavesOf(Head(items).v) ELSE <<Head(items)>>)
             \o LeavesOf(Tail(items))

\* min(w, s) and max(w, s): -2^(w-1) and 2^(w-1) - 1 for a signed type of
\* w bits, 0 and 2^w - 1 for an unsigned one
RangeOf(base) ==
    LET signed == base[9] = "I"
        digits == SubSeq(base, 10, Len(base) - 2)
        w == IF digits = <<"8">> THEN 8
             ELSE IF digits = <<"1", "6">> THEN 16
             ELSE IF digits = <<"3", "2">> THEN 32 ELSE 64
    IN  IF signed THEN [lo |-> Num(1 - w, 0), hi |-> Num(w - 1, -1)]
        ELSE [lo |-> PyInt(0), hi |-> Num(w, -1)]

\* what the claim says of one leaf, the integral values being the integers
\* and the booleans, which Python counts as the integers 0 and 1
LeafOutcome(base, v) ==
    IF v.t \notin {"int", "bool"} THEN Raise("TypeError", "Value datatype error: Not an integer")
    ELSE IF NumLeq(RangeOf(base).lo, v) /\ NumLeq(v, RangeOf(base).hi) THEN OK
    ELSE Raise("ValueError", "Value out of range for datatype")

ShapeSizes == {PyInt(2), PyInt(3)}
ShapeMaxSizes == {PyStr(H5S_UNLIMITED), PyInt(2), PyInt(3)}
ChunkSizes == {PyInt(2), PyInt(3), PyInt(4), MaxChunk}

LayoutShapes ==
    {[class |-> "H5S_SIMPLE", dims |-> PyList(d)] : d \in SeqsUpTo(ShapeSizes, MaxRank)}
        \cup {[class |-> "H5S_SIMPLE", dims |-> PyList(d), maxdims |-> PyList(m)] :
                  d \in SeqsUpTo(ShapeSizes, MaxRank), m \in SeqsUpTo(ShapeMaxSizes, MaxRank)}

Int32 == [class |-> "H5T_INTEGER", base |-> H5T_STD \o <<"I", "3", "2", "L", "E">>]
Float64 == [class |-> "H5T_FLOAT", base |-> H5T_IEEE \o <<"F", "6", "4", "L", "E">>]

Chunked(c) == [class |-> "H5D_CHUNKED", dims |-> PyList(c)]

ChunkedDatasets ==
    {[shape |-> sh, type |-> Int32, creationProperties |-> [layout |-> Chunked(c)]] :
         sh \in LayoutShapes, c \in SeqsUpTo(ChunkSizes, MaxRank)}

Shape1 == [class |-> "H5S_SIMPLE", dims |-> PyList(<<PyInt(2)>>)]
Scalar == [class |-> "H5S_SCALAR"]
Deflate == [class |-> "H5Z_FILTER_DEFLATE", id |-> PyInt(1), level |-> PyInt(9)]
ScaleOffset(st) == [class |-> "H5Z_FILTER_SCALEOFFSET", id |-> PyInt(6), scaleType |-> st,
                    scaleOffset |-> PyInt(0)]
Fletcher32 == [class |-> "H5Z_FILTER_FLETCHER32", id |-> PyInt(3)]

OtherObjects ==
    {[shape |-> sh, type |-> Int32, creationProperties |-> [layout |-> Chunked(<<PyInt(2)>>)]] :
         sh \in {Scalar, [class |-> "H5S_NULL"]}}
        \cup {[type |-> Int32, creationProperties |-> [layout |-> Chunked(<<PyInt(2)>>)]]}
        \cup {[shape |-> Shape1, type |-> Int32, creationProperties |-> [layout |-> l]] :
                  l \in {[class |-> "H5D_CHUNKED"], [dims |-> PyList(<<PyInt(2)>>)],
                         [class |-> "H5D_CHUNKED", dims |-> PyInt(2)],
                         [class |-> "H5D_CONTIGUOUS"], [class |-> "H5D_VIRTUAL"],
                         [class |-> "H5D_COMPACT", dims |-> PyList(<<PyInt(2)>>)],
                         Chunked(<<PyInt(0)>>), Chunked(<<PyFloat(0, 1)>>), Chunked(<<>>),
                         Chunked(<<Num(32, 0)>>), Chunked(<<MaxChunk, PyInt(2)>>)}}
        \cup {[shape |-> Shape1, type |-> Int32, value |-> v] :
                  v \in {PyList(<<PyInt(1), PyInt(2)>>), PyList(<<PyInt(1)>>), PyInt(1),
                         PyList(<<PyInt(1), Num(31, 0)>>),
                         PyList(<<PyList(<<PyInt(1)>>), PyList(<<PyInt(2)>>)>>)}}
        \cup {[shape |-> sh, type |-> t, value |-> v] :
                  sh \in {Scalar, [class |-> "H5S_NULL"]}, t \in {Int32, Float64},
                  v \in {PyInt(1), PyFloat(0, 1), PyFloat(2048, 0), PyList(<<PyInt(1)>>)}}
        \cup {[type |-> Int32, value |-> PyInt(1)], [shape |-> Scalar, value |-> PyInt(1)],
              [shape |-> Scalar, type |-> [class |-> "H5T_REFERENCE", base |-> H5T_STD_REF_OBJ],
               value |-> PyStr(<<"x">>)]}
        \cup {[shape |-> Scalar, type |-> Int32, name |-> n] :
                  n \in {PyStr(<<"a">>), PyStr(<<>>), PyStr(<<"a", SLASH, "b">>), PyInt(1)}}
        \cup {[shape |-> Shape1, type |-> t, creationProperties |-> cp] :
                  t \in {Int32, Float64},
                  cp \in {[nameCharEncoding |-> "H5T_CSET_UTF8"], [nameCharEncoding |-> "latin1"],
                          [fillValue |-> PyInt(0)], [fillValue |-> Num(63, 0)],
                          [filters |-> PyList(<<Deflate>>)], [filters |-> PyInt(1)],
                          [layout |-> [class |-> "H5D_CONTIGUOUS"], filters |-> PyList(<<Deflate>>)],
                          [layout |-> Chunked(<<PyInt(2)>>),
                           filters |-> PyList(<<ScaleOffset("H5Z_SO_INT"), Fletcher32>>)],
                          [layout |-> Chunked(<<PyInt(2)>>),
                           filters |-> PyList(<<ScaleOffset("H5Z_SO_FLOAT_DSCALE")>>)],
                          [layout |-> Chunked(<<PyInt(2)>>),
                           filters |-> PyList(<<ScaleOffset("H5Z_SO_FLOAT_ESCALE")>>)],
                          [layout |-> Chunked(<<PyInt(2)>>),
                           filters |-> PyList(<<[class |-> "H5Z_FILTER_USER", id |-> PyInt(300)],
                                                PyInt(1)>>)]}}

ValidateH5jsonCall ==
    /\ vpc = "validate"
    /\ vout' = ValidateH5json(vin.h5j, vin.reqd)
    /\ vpc' = "done"
    /\ UNCHANGED <<wvars, rvars, vin>>

InitValidate ==
    /\ WalkerIdle
    /\ RewriterIdle
    /\ vin \in {[h5j |-> o, reqd |-> r] : o \in ChunkedDatasets \cup OtherObjects,
                                          r \in {<<>>, <<"shape", "type">>}}
    /\ vout = OK
    /\ vpc = "validate"

NextValidate == ValidateH5jsonCall

SpecValidate == InitValidate /\ [][NextValidate]_vars

\* validate_h5json has returned on a dataset with a chunked layout whose
\* shape is valid and whose chunk has passed the checks of its sizes
ChunkDone ==
    /\ vpc = "done"
    /\ vin.h5j \in ChunkedDatasets
    /\ CheckShape(vin.h5j.shape) = OK
    /\ ~ProdTooLarge(vin.h5j.creationProperties.layout.dims.v)

ChunkOf == vin.h5j.creationProperties.layout.dims.v

\* the effective maximum of axis i: maxdims[i] if maxdims is present, else
\* dims[i]
EffectiveMax(i) ==
    IF "maxdims" \in DOMAIN vin.h5j.shape THEN vin.h5j.shape.maxdims.v[i]
    ELSE vin.h5j.shape.dims.v[i]

RankMismatch == Raise("ValueError", "Chunk rank must be same as shape rank")
ChunkExceedsMax == Raise("ValueError", "Chunking dim size greater than max size")

\* C10: with a chunked layout on a Simple dataspace the chunk rank must
\* equal the shape rank; then validation fails when, on some axis whose
\* effective maximum (maxdims[i] if maxdims is present, else dims[i]) is
\* numeric, chunk[i] is greater than the effective maximum, and passes when
\* chunk[i] <= the effective maximum on every numeric axis, whatever the
\* chunk on the axes whose maxdims entry is the unlimited marker.
C10_ChunkBound ==
    ChunkDone =>
        IF Len(ChunkOf) # Len(vin.h5j.shape.dims.v) THEN vout = RankMismatch
        ELSE IF \E i \in 1..Len(ChunkOf) :
                    /\ EffectiveMax(i) # PyStr(H5S_UNLIMITED)
                    /\ NumLess(EffectiveMax(i), ChunkOf[i])
            THEN vout = ChunkExceedsMax
        ELSE vout = OK

\* dims [2, 3] without maxdims and the chunk [2, 4]: the chunk exceeds the
\* effective maximum 3 of the second axis and the dataset has been rejected
C10_Witness ==
    /\ ChunkDone
    /\ "maxdims" \notin DOMAIN vin.h5j.shape
    /\ vin.h5j.shape.dims.v = <<PyInt(2), PyInt(3)>>
    /\ ChunkOf = <<PyInt(2), PyInt(4)>>
    /\ vout = ChunkExceedsMax

\* a chunk greater than dims on an unlimited axis, and equal to the maximum
\* on a numeric one, has been accepted
C10_UnlimitedExempt ==
    /\ ChunkDone
    /\ "maxdims" \in DOMAIN vin.h5j.shape
    /\ vin.h5j.shape.dims.v = <<PyInt(2), PyInt(3)>>
    /\ vin.h5j.shape.maxdims.v = <<PyStr(H5S_UNLIMITED), PyInt(3)>>
    /\ ChunkOf = <<PyInt(4), PyInt(3)>>
    /\ vout = OK

(***************************************************************************)
(* The datatype validator on the compound datatypes.                       *)
(***************************************************************************)

\* the most members of a compound datatype
MaxFields == 2

Int24 == [class |-> "H5T_INTEGER", base |-> H5T_STD \o <<"I", "2", "4", "L", "E">>]
Member(n, t) == [name |-> n, type |-> t]
Compound(fs) == [class |-> "H5T_COMPOUND", fields |-> PyList(fs)]

\* compound datatypes as the members of another: with distinct names, with
\* names that differ in case, with a name twice
InnerCompounds ==
    {Compound(<<Member(<<"x">>, Int32), Member(n, Int32)>>) : n \in {<<"y">>, <<"X">>, <<"x">>}}

MemberNames == {<<"x">>, <<"X">>, <<>>}
MemberTypes == {Int32, Int24} \cup InnerCompounds
Members == {Member(n, t) : n \in MemberNames, t \in MemberTypes}

CompoundTypes ==
    {Compound(fs) : fs \in SeqsUpTo(Members, MaxFields)}
        \cup {Compound(<<>>), [class |-> "H5T_COMPOUND"],
              [class |-> "H5T_COMPOUND", fields |-> PyInt(1)],
              Compound(<<[type |-> Int32]>>), Compound(<<[name |-> <<"x">>]>>),
              Compound(<<[name |-> <<"x">>], [name |-> <<"x">>]>>),
              Compound(<<Member(<<"x">>, Compound(<<Member(<<"x">>,
                  Compound(<<Member(<<"y">>, Int32), Member(<<"y">>, Int32)>>))>>))>>)}

InitCompound ==
    /\ WalkerIdle
    /\ RewriterIdle
    /\ vin \in CompoundTypes
    /\ vout = OK
    /\ vpc = "type"

NextCompound == CheckTypeCall

SpecCompound == InitCompound /\ [][NextCompound]_vars

CompoundDone == vpc = "done" /\ vin \in CompoundTypes

\* the members of a compound datatype, when they are in a list
FieldsOf(t) == IF "fields" \in DOMAIN t /\ t.fields.t = "list" THEN t.fields.v ELSE <<>>

\* every member of t, at every depth, has a name that is not empty and a
\* datatype that is Int32 or a compound datatype
RECURSIVE NamedAndTyped(_)
NamedAndTyped(t) ==
    \/ t = Int32
    \/ /\ "class" \in DOMAIN t /\ t.class = "H5T_COMPOUND"
       /\ FieldsOf(t) # <<>>
       /\ \A i \in 1..Len(FieldsOf(t)) :
              /\ DOMAIN FieldsOf(t)[i] = {"name", "type"}
              /\ FieldsOf(t)[i].name # <<>>
              /\ NamedAndTyped(FieldsOf(t)[i].type)

\* two members of t, or of a compound datatype inside t, share a name
RECURSIVE SharesName(_)
SharesName(t) ==
    /\ "class" \in DOMAIN t /\ t.class = "H5T_COMPOUND"
    /\ \/ \E i, j \in 1..Len(FieldsOf(t)) :
              /\ i # j
              /\ "name" \in DOMAIN FieldsOf(t)[i] /\ "name" \in DOMAIN FieldsOf(t)[j]
              /\ FieldsOf(t)[i].name = FieldsOf(t)[j].name
       \/ \E i \in 1..Len(FieldsOf(t)) :
              "type" \in DOMAIN FieldsOf(t)[i] /\ SharesName(FieldsOf(t)[i].type)

DuplicateName == Raise("ValueError", "Compound member name is not unique")

\* C11 as stated: a compound datatype with a non-empty member list, names
\* that are not empty and pairwise distinct and valid member datatypes is
\* accepted, and any compound datatype in which two members share a name,
\* at any depth, fails with the duplicate-name error.
C11_AsStated ==
    CompoundDone =>
        /\ (NamedAndTyped(vin) /\ ~SharesName(vin)) => vout = OK
        /\ SharesName(vin) => vout = DuplicateName

\* C11: a compound datatype with a non-empty member list, names that are
\* not empty and pairwise distinct (upper and lower case differ) and valid
\* member datatypes is accepted.  One in which two members share a name, at
\* any depth, fails with the duplicate-name error when every member, at
\* every depth, has a name that is not empty and a datatype that is valid
\* but for shared names; otherwise it fails with another error or with the
\* duplicate-name error.
C11_DuplicateAfterMembers ==
    CompoundDone =>
        /\ (NamedAndTyped(vin) /\ ~SharesName(vin)) => vout = OK
        /\ (NamedAndTyped(vin) /\ SharesName(vin)) => vout = DuplicateName
        /\ SharesName(vin) => vout.exc # "none"

\* a compound datatype whose only member is one with the name x twice has
\* been rejected for the name
C11_Witness ==
    /\ CompoundDone
    /\ vin = Compound(<<Member(<<"X">>,
                 Compound(<<Member(<<"x">>, Int32), Member(<<"x">>, Int32)>>))>>)
    /\ vout = DuplicateName

(***************************************************************************)
(* The object validator on the chunks of large sizes: the dataset has as   *)
(* many dimensions as the chunk, all of them unlimited.                    *)
(***************************************************************************)

\* the largest rank of a chunk of large sizes
MaxChunkRank == 3

LargeChunkSizes == {PyInt(1), PyInt(4), Num(16, 0), Num(31, 0), MaxChunk}

UnlimitedShape(k) ==
    [class |-> "H5S_SIMPLE", dims |-> PyList([i \in 1..k |-> PyInt(2)]),
     maxdims |-> PyList([i \in 1..k |-> PyStr(H5S_UNLIMITED)])]

LargeChunkDatasets ==
    {[shape |-> UnlimitedShape(Len(c)), type |-> Int32,
      creationProperties |-> [layout |-> Chunked(c)]] :
         c \in SeqsUpTo(LargeChunkSizes, MaxChunkRank)}

InitChunk ==
    /\ WalkerIdle
    /\ RewriterIdle
    /\ vin \in {[h5j |-> o, reqd |-> <<>>] : o \in LargeChunkDatasets}
    /\ vout = OK
    /\ vpc = "validate"

NextChunk == ValidateH5jsonCall

SpecChunk == InitChunk /\ [][NextChunk]_vars

\* the product of two numbers of 16 bytes, the least significant first,
\* without a modulus: the numbers multiplied here have at most 12 bytes
WideTimes(a, b) ==
    LET RECURSIVE Sum(_, _)
        Sum(k, i) == IF i > k THEN 0 ELSE a[i] * b[k + 1 - i] + Sum(k, i + 1)
        RECURSIVE Carry(_)
        Carry(k) == IF k = 1 THEN 0 ELSE (Sum(k - 1, 1) + Carry(k - 1)) \div 256
    IN  [k \in 1..16 |-> (Sum(k, 1) + Carry(k)) % 256]

Wide(bytes) == [i \in 1..16 |-> IF i <= Len(bytes) THEN bytes[i] ELSE 0]

\* the mathematical product of the chunk dims
RECURSIVE WideProd(_)
WideProd(dims) ==
    IF dims = <<>> THEN Wide(<<1>>)
    ELSE WideTimes(Wide(BytesOf(Head(dims))), WideProd(Tail(dims)))

\* the mathematical product of the chunk dims is >= 2^32, >= 2^63, a
\* multiple of 2^64
AtLeast2To32(dims) == \E i \in 5..16 : WideProd(dims)[i] # 0
AtLeast2To63(dims) == WideProd(dims)[8] >= 128 \/ \E i \in 9..16 : WideProd(dims)[i] # 0
MultipleOf2To64(dims) == \A i \in 1..8 : WideProd(dims)[i] = 0

ChunkTooLarge == Raise("ValueError", "Number of elements in a chunk must be less than 2^32")

LargeChunkDone == vpc = "done" /\ vin.h5j \in LargeChunkDatasets

\* C12: for every list of chunk dims each in 1..2^32-1, validation fails
\* with the chunk-too-large error whenever the mathematical product of the
\* chunk dims is >= 2^32, a product >= 2^63 or a multiple of 2^64 included.
C12_ProductNotWrapped ==
    LargeChunkDone =>
        (AtLeast2To32(ChunkOf) => vout = ChunkTooLarge)

\* a chunk whose product is >= 2^63 has been accepted
C12_WrappedNegativeAccepted ==
    /\ LargeChunkDone
    /\ ChunkOf = <<MaxChunk, MaxChunk>>
    /\ AtLeast2To63(ChunkOf)
    /\ vout = OK

\* a chunk whose product is 2^64 has been accepted
C12_WrappedZeroAccepted ==
    /\ LargeChunkDone
    /\ ChunkOf = <<PyInt(4), Num(31, 0), Num(31, 0)>>
    /\ MultipleOf2To64(ChunkOf)
    /\ vout = OK

\* a chunk whose product is between 2^32 and 2^63 has been rejected
C12_LargeRejected ==
    /\ LargeChunkDone
    /\ ChunkOf = <<Num(16, 0), Num(16, 0)>>
    /\ vout = ChunkTooLarge

(***************************************************************************)
(* The object validator on the datasets with filters: every layout class,  *)
(* or none, and the datatype classes the scale-offset filter looks at.     *)
(***************************************************************************)
String4 == [class |-> "H5T_STRING", charSet |-> "H5T_CSET_ASCII",
            strPad |-> "H5T_STR_NULLTERM", length |-> PyInt(4)]

ScaleTypes == {"H5Z_SO_INT", "H5Z_SO_FLOAT_DSCALE", "H5Z_SO_FLOAT_ESCALE", "H5Z_SO_NONE"}
ScaleOffsets == {PyInt(0), PyInt(5), PyInt(-1), PyFloat(0, 1), PyStr(<<"2">>)}

ScaleOffsetFilters ==
    {[class |-> "H5Z_FILTER_SCALEOFFSET", id |-> PyInt(6), scaleType |-> st, scaleOffset |-> so] :
         st \in ScaleTypes, so \in ScaleOffsets}

FilterLists ==
    {<<>>, <<Deflate>>, <<Fletcher32>>, <<Deflate, Fletcher32>>,
     <<[class |-> "H5Z_FILTER_SCALEOFFSET", id |-> PyInt(6), scaleOffset |-> PyInt(0)]>>,
     <<[class |-> "H5Z_FILTER_SCALEOFFSET", id |-> PyInt(6), scaleType |-> "H5Z_SO_INT"]>>,
     <<[class |-> "H5Z_FILTER_DEFLATE", id |-> PyInt(1), level |-> PyInt(10)]>>,
     <<[class |-> "H5Z_FILTER_DEFLATE", id |-> PyInt(0), level |-> PyInt(1)]>>,
     <<[class |-> "H5Z_FILTER_LZF", id |-> PyInt(32000)]>>,
     <<[id |-> PyInt(1)]>>, <<[class |-> "H5Z_FILTER_SHUFFLE"]>>, <<PyInt(1)>>,
     <<[class |-> "H5Z_FILTER_USER", id |-> PyInt(300), parameters |-> PyList(<<>>)]>>}
        \cup {<<f>> : f \in ScaleOffsetFilters}
        \cup {<<Fletcher32, f>> : f \in ScaleOffsetFilters}

FilterLayouts == {[class |-> "H5D_CONTIGUOUS"], [class |-> "H5D_COMPACT"],
                  Chunked(<<PyInt(2)>>)}

FilterDatasets ==
    {[shape |-> Shape1, type |-> t, creationProperties |-> [filters |-> PyList(fl)]] :
         t \in {Int32, Float64, String4}, fl \in FilterLists}
        \cup {[shape |-> Shape1, type |-> t,
               creationProperties |-> [layout |-> l, filters |-> PyList(fl)]] :
                  t \in {Int32, Float64, String4}, l \in FilterLayouts, fl \in FilterLists}
        \cup {[shape |-> Shape1, creationProperties |-> [filters |-> PyList(fl)]] :
                  fl \in FilterLists}

InitFilters ==
    /\ WalkerIdle
    /\ RewriterIdle
    /\ vin \in {[h5j |-> o, reqd |-> <<>>] : o \in FilterDatasets}
    /\ vout = OK
    /\ vpc = "validate"

NextFilters == ValidateH5jsonCall

SpecFilters == InitFilters /\ [][NextFilters]_vars

FiltersDone == vpc = "done" /\ vin.h5j \in FilterDatasets
FiltersOf == vin.h5j.creationProperties.filters.v

\* the layout is not Chunked: its class is Contiguous or Compact, or no
\* layout is given
NotChunked ==
    \/ "layout" \notin DOMAIN vin.h5j.creationProperties
    \/ vin.h5j.creationProperties.layout.class \in {"H5D_CONTIGUOUS", "H5D_COMPACT"}

FiltersRequireChunking == Raise("ValueError", "Filters allowed only with chunked layout")

\* C13: whenever creationProperties carries a non-empty filter list and the
\* layout is not Chunked (its class is Contiguous or Compact, or no layout
\* is given at all), validation fails with the filters-require-chunking
\* error; an empty filter list is accepted under any layout.
C13_FiltersRequireChunking ==
    FiltersDone =>
        /\ (FiltersOf # <<>> /\ NotChunked) => vout = FiltersRequireChunking
        /\ FiltersOf = <<>> => vout = OK

\* a deflate filter without a layout has been accepted
C13_NoLayoutAccepted ==
    /\ FiltersDone
    /\ "layout" \notin DOMAIN vin.h5j.creationProperties
    /\ FiltersOf = <<Deflate>>
    /\ vout = OK

\* a deflate filter with a contiguous layout has been rejected
C13_ContiguousRejected ==
    /\ FiltersDone
    /\ "layout" \in DOMAIN vin.h5j.creationProperties
    /\ vin.h5j.creationProperties.layout.class = "H5D_CONTIGUOUS"
    /\ FiltersOf = <<Deflate>>
    /\ vout = FiltersRequireChunking

\* validate_h5json has returned on a dataset with a chunked layout, a
\* datatype and one scale-offset filter that has a scale type and a scale
\* offset
ScaleOffsetDone ==
    /\ FiltersDone
    /\ "type" \in DOMAIN vin.h5j
    /\ "layout" \in DOMAIN vin.h5j.creationProperties
    /\ vin.h5j.creationProperties.layout.class = "H5D_CHUNKED"
    /\ Len(FiltersOf) = 1
    /\ FiltersOf[1] \in ScaleOffsetFilters

\* the scale type goes with the datatype class of the object
ScaleTypeMatches ==
    \/ FiltersOf[1].scaleType = "H5Z_SO_INT" /\ vin.h5j.type.class = "H5T_INTEGER"
    \/ FiltersOf[1].scaleType = "H5Z_SO_FLOAT_DSCALE" /\ vin.h5j.type.class = "H5T_FLOAT"

\* the scale offset is an integer that is not negative
ScaleOffsetValid ==
    /\ FiltersOf[1].scaleOffset.t = "int"
    /\ FiltersOf[1].scaleOffset.v.b >= 0
    /\ FiltersOf[1].scaleOffset.v.d >= 0

\* C14: a scale-offset filter is accepted exactly when its scale type is
\* int-scale and the datatype class of the object Integer, or
\* float-double-scale and the class Float, and its scaleOffset is an
\* integer that is not negative; a float-escale filter is always rejected,
\* as not supported, and every other combination of scale type and
\* datatype class fails.
C14_ScaleOffset ==
    ScaleOffsetDone =>
        /\ vout = OK <=> (ScaleTypeMatches /\ ScaleOffsetValid)
        /\ FiltersOf[1].scaleType = "H5Z_SO_FLOAT_ESCALE" =>
               vout = Raise("ValueError", "Scale-offset filter type not supported yet")

\* an int-scale filter on a dataset of the Float class has been rejected
C14_Witness ==
    /\ ScaleOffsetDone
    /\ FiltersOf[1].scaleType = "H5Z_SO_INT"
    /\ FiltersOf[1].scaleOffset = PyInt(0)
    /\ vin.h5j.type = Float64
    /\ vout = Raise("ValueError", "Scale-offset filter type only allowed for integer datatypes")

(***************************************************************************)
(* The object validator on the attributes with a value: scalars, lists and *)
(* lists of lists, against a scalar dataspace and the simple ones of one   *)
(* and two dimensions.                                                     *)
(***************************************************************************)
ShapedLeaves == {PyInt(1), Num(31, 0), PyFloat(0, 1)}
FlatValues == {<<>>} \cup [1..1 -> ShapedLeaves] \cup [1..2 -> ShapedLeaves]
NestedValues == {<<PyList(a)>> : a \in FlatValues}
                    \cup {<<PyList(a), PyList(b)>> : a, b \in FlatValues}
ShapedValues == ShapedLeaves \cup {PyList(a) : a \in FlatValues \cup NestedValues}

ValueShapes ==
    {Scalar} \cup {[class |-> "H5S_SIMPLE", dims |-> PyList(d)] :
                       d \in [1..1 -> {PyInt(0), PyInt(1), PyInt(2)}]
                                 \cup [1..2 -> {PyInt(0), PyInt(1), PyInt(2)}]}

ValuedObjects == {[shape |-> sh, type |-> Int32, value |-> v] :
                      sh \in ValueShapes, v \in ShapedValues}

InitValueShape ==
    /\ WalkerIdle
    /\ RewriterIdle
    /\ vin \in {[h5j |-> o, reqd |-> <<>>] : o \in ValuedObjects}
    /\ vout = OK
    /\ vpc = "validate"

NextValueShape == ValidateH5jsonCall

SpecValueShape == InitValueShape /\ [][NextValueShape]_vars

ValueShapeDone == vpc = "done" /\ vin.h5j \in ValuedObjects

\* the shape of a list measured by its nesting widths: the length of the
\* list, then the shape its items share; <<-1>> when the items are not all
\* scalars, or not all lists of one shape
RECURSIVE MeasuredShape(_)
MeasuredShape(items) ==
    IF \A i \in 1..Len(items) : items[i].t # "list" THEN <<Len(items)>>
    ELSE IF /\ \A i \in 1..Len(items) : items[i].t = "list"
            /\ \A i \in 1..Len(items) : MeasuredShape(items[i].v) = MeasuredShape(items[1].v)
            /\ MeasuredShape(items[1].v) # <<-1>>
        THEN <<Len(items)>> \o MeasuredShape(items[1].v)
    ELSE <<-1>>

\* C15: with shape class Simple a value is accepted only if it is a nested
\* sequence whose measured shape equals dims exactly, with shape class
\* Scalar only if it is not a sequence, and in both cases only if every
\* scalar leaf passes the value conformance checker of the datatype.
C15_ValueMatchesShape ==
    (ValueShapeDone /\ vout = OK) =>
        /\ IF vin.h5j.shape.class = "H5S_SIMPLE"
           THEN /\ vin.h5j.value.t = "list"
                /\ [i \in 1..Len(MeasuredShape(vin.h5j.value.v)) |->
                        PyInt(MeasuredShape(vin.h5j.value.v)[i])] = vin.h5j.shape.dims.v
           ELSE vin.h5j.value.t # "list"
        /\ LET leaves == IF vin.h5j.value.t = "list" THEN LeavesOf(vin.h5j.value.v)
                         ELSE <<vin.h5j.value>>
           IN  \A i \in 1..Len(leaves) : LeafOutcome(vin.h5j.type.base, leaves[i]) = OK

\* the value [[1, 1], [1]] has been accepted for dims [2]
C15_RaggedAccepted ==
    /\ ValueShapeDone
    /\ vin.h5j.shape = [class |-> "H5S_SIMPLE", dims |-> PyList(<<PyInt(2)>>)]
    /\ vin.h5j.value = PyList(<<PyList(<<PyInt(1), PyInt(1)>>), PyList(<<PyInt(1)>>)>>)
    /\ vout = OK

\* the value [[1, 1], [1, 1]] has been accepted for dims [2, 2] and not for
\* another shape
C15_RegularAccepted ==
    /\ ValueShapeDone
    /\ vin.h5j.value = PyList(<<PyList(<<PyInt(1), PyInt(1)>>), PyList(<<PyInt(1), PyInt(1)>>)>>)
    /\ vout = OK
    /\ vin.h5j.shape.dims.v = <<PyInt(2), PyInt(2)>>

(***************************************************************************)
(* The values of attributes after the rewrite.                             *)
(***************************************************************************)
\* the rewrite has returned or raised
RewriteEnded == rpc \in {"done", "raised"}

\* the objects the loop of the rewrite has reached
Reached == 1..(IF ridx <= Len(objs) THEN ridx ELSE Len(objs))

\* new is old with the identifier segment of every leaf string that starts
\* with "datasets/" replaced by the identifier sub_uuid holds for it, the
\* other segments and every other leaf being as they were
RECURSIVE LeavesSpliced(_, _)
LeavesSpliced(old, new) ==
    IF old.t = "list"
      THEN /\ new.t = "list"
           /\ Len(new.v) = Len(old.v)
           /\ \A i \in 1..Len(old.v) : LeavesSpliced(old.v[i], new.v[i])
      ELSE IF old.t = "str" /\ StartsWith(old.v, DatasetsPrefix)
        THEN LET a == Split(old.v, SLASH)
                 b == IF new.t = "str" THEN Split(new.v, SLASH) ELSE <<>>
             IN  /\ Len(b) = Len(a)
                 /\ a[2] \in DOMAIN sub_uuid
                 /\ b[2] = sub_uuid[a[2]]
                 /\ b[2] # a[2]
                 /\ \A k \in 1..Len(a) : k # 2 => b[k] = a[k]
        ELSE new = old

\* C16: once the rewrite has ended, every attribute it reached that is named
\* REFERENCE_LIST or DIMENSION_LIST and carries a value has, at every leaf
\* string of the value that starts with "datasets/", exactly the identifier
\* segment replaced by the mapped new identifier, and every other leaf as it
\* was; the value of an attribute with any other name is as it was.
C16_ReservedRewritten ==
    RewriteEnded =>
        \A i \in Reached :
            "value" \in DOMAIN objs0[i] =>
                IF IsReserved(objs0[i])
                  THEN LeavesSpliced(objs0[i].value, objs[i].value)
                  ELSE objs[i].value = objs0[i].value

(***************************************************************************)
(* The converters between the description of an object and its storage     *)
(* record, h5json_to_db and db_to_h5json.                                  *)
(***************************************************************************)
\* the outcome of a converter: the dictionary returned, or the exception
Returned(val) == [exc |-> "none", val |-> val]
Failed(exc) == [exc |-> exc, val |-> [x \in {} |-> x]]

\* the dictionary d with the key k set to v
Put(d, k, v) == [x \in DOMAIN d \cup {k} |-> IF x = k THEN v ELSE d[x]]

\* the dictionary {}
EmptyDict == [x \in {} |-> x]

\* json.dumps(x): the text that encodes x.  The values encoded here are
\* dictionaries with string keys, lists, strings and numbers, which
\* json.loads gives back as they were; the text itself has no items and no
\* keys.
JsonDumps(x) == [t |-> "str", json |-> x]
JsonLoads(s) == s.json

\* bool(v) of a value
Truthy(v) ==
    IF v.t \in {"list", "str"} THEN Len(v.v) > 0
    ELSE v.v # [b |-> 0, d |-> 0]

\* the keys h5json_to_db reads with oinfo[...] for an object of type ot
KeysRead(ot, oi) ==
    {"name"}
    \cup (IF ot \in {"attribute", "dataset"} THEN {"shape", "type"} ELSE {})
    \cup (IF ot = "attribute" THEN {"value"} ELSE {})
    \cup (IF ot = "dataset" THEN {"creationProperties"} ELSE {})

\* h5json_to_db(otype, oinfo)
H5jsonToDb(ot, oi) ==
    IF ~(KeysRead(ot, oi) \subseteq DOMAIN oi) THEN Failed("KeyError")
    ELSE IF ot \notin {"attribute", "dataset", "group"} THEN Failed("NotImplementedError")
    ELSE
    LET d0 == [name |-> oi.name,
               description |-> IF "description" \in DOMAIN oi THEN oi.description
                               ELSE PyStr(<<>>),
               type |-> ot]
        d1 == IF "uuid" \in DOMAIN oi THEN Put(d0, "uuid", oi.uuid) ELSE d0
        fin(layout, rank, misc, dims, maxdims, data) ==
            Returned(d1 @@ [layout |-> layout, rank |-> rank,
                            misc |-> JsonDumps(misc), dims |-> JsonDumps(dims),
                            maxdims |-> JsonDumps(maxdims), data |-> JsonDumps(data)])
    IN  IF ot = "group"
          THEN fin("N/A", 0, EmptyDict, EmptyDict, EmptyDict, [value |-> EmptyDict])
        ELSE IF "class" \notin DOMAIN oi.shape THEN Failed("KeyError")
        ELSE IF oi.shape.class = "H5S_SIMPLE" /\ "dims" \notin DOMAIN oi.shape
          THEN Failed("KeyError")
        ELSE
        LET simple == oi.shape.class = "H5S_SIMPLE"
            rank == IF simple THEN Len(oi.shape.dims.v) ELSE 0
            dims == [dims |-> IF simple THEN oi.shape.dims ELSE PyList(<<>>)]
        IN  IF ot = "attribute"
              THEN fin("N/A", rank, [datatype |-> oi.type], dims,
                       [maxdims |-> IF ~simple THEN PyList(<<>>)
                                    ELSE IF "maxdims" \in DOMAIN oi.shape
                                      THEN oi.shape.maxdims ELSE oi.shape.dims],
                       [value |-> oi.value])
            ELSE IF simple /\ "maxdims" \notin DOMAIN oi.shape THEN Failed("KeyError")
            ELSE
            LET cp == oi.creationProperties
                layout == IF "layout" \in DOMAIN cp /\ "class" \in DOMAIN cp.layout
                            THEN cp.layout.class ELSE "H5D_CONTIGUOUS"
                m0 == [datatype |-> oi.type]
                m1 == IF layout = "H5D_CHUNKED" THEN Put(m0, "chunks", cp.layout.dims)
                      ELSE m0
                m2 == IF "filters" \in DOMAIN cp THEN Put(m1, "filters", cp.filters) ELSE m1
                m3 == IF "fillValue" \in DOMAIN cp THEN Put(m2, "fillValue", cp.fillValue)
                      ELSE m2
            IN  IF layout = "H5D_CHUNKED" /\ "dims" \notin DOMAIN cp.layout
                  THEN Failed("KeyError")
                ELSE fin(layout, rank, m3, dims,
                         [maxdims |-> IF simple THEN oi.shape.maxdims ELSE PyList(<<>>)],
                         [value |-> IF "value" \in DOMAIN oi /\ Truthy(oi.value)
                                      THEN oi.value ELSE EmptyDict])

\* the keys db_to_h5json reads with oinfo[...] for an object of type ot
DbKeysRead(ot) ==
    {"type", "description", "uuid", "name"}
    \cup (IF ot \in {"attribute", "dataset"} THEN {"data", "misc", "rank"} ELSE {})
    \cup (IF ot = "dataset" THEN {"layout"} ELSE {})

\* len(v) is defined: v is a dictionary, a list or a string
Sized(v) == v = EmptyDict \/ v.t \in {"list", "str"}

\* db_to_h5json(otype, oinfo), oinfo being the storage record with its
\* misc, dims, maxdims and data decoded; chunk is what guess_chunk would
\* return for it
DbToH5json(ot, oi, chunk) ==
    IF ~(DbKeysRead(ot) \subseteq DOMAIN oi) THEN Failed("KeyError")
    ELSE IF ot \notin {"attribute", "dataset", "group"} THEN Failed("NotImplementedError")
    ELSE
    LET h0 == [_objtype |-> oi.type, description |-> oi.description,
               id |-> oi.uuid, name |-> oi.name]
        h1 == IF "puuid" \in DOMAIN oi THEN Put(h0, "_pid", oi.puuid) ELSE h0
    IN  IF ot = "group" THEN Returned(h1)
        ELSE
        LET h2 == Put(h1, "type", oi.misc.datatype)
            shape == IF oi.rank = 0 THEN [class |-> "H5S_SCALAR"]
                     ELSE [class |-> "H5S_SIMPLE", dims |-> oi.dims.dims,
                           maxdims |-> IF ot = "attribute" /\ "maxdims" \notin DOMAIN oi.maxdims
                                         THEN oi.dims.dims ELSE oi.maxdims.maxdims]
            h3 == Put(h2, "shape", shape)
        IN  IF ot = "attribute"
              THEN Returned(Put(Put(h3, "creationProperties",
                                    [nameCharEncoding |-> "H5T_CSET_UTF8"]),
                                "value", oi.data.value))
            ELSE IF ~Sized(oi.data.value) THEN Failed("TypeError")
            ELSE
            LET h4 == IF oi.data.value # EmptyDict /\ Len(oi.data.value.v) > 0
                        THEN Put(h3, "value", oi.data.value) ELSE h3
                c0 == [layout |->
                          IF oi.layout = "H5D_CHUNKED"
                            THEN [class |-> "H5D_CHUNKED",
                                  dims |-> IF "chunks" \in DOMAIN oi.misc
                                             THEN oi.misc.chunks ELSE chunk]
                            ELSE [class |-> oi.layout]]
                c1 == IF "filters" \in DOMAIN oi.misc /\ Len(oi.misc.filters.v) > 0
                        THEN Put(c0, "filters", oi.misc.filters) ELSE c0
                c2 == IF "fillValue" \in DOMAIN oi.misc
                        THEN Put(c1, "fillValue", oi.misc.fillValue) ELSE c1
            IN  Returned(Put(h4, "creationProperties", c2))

\* the storage record read back: its serialized fields decoded
Decoded(db) ==
    [db EXCEPT !.misc = JsonLoads(@), !.dims = JsonLoads(@),
               !.maxdims = JsonLoads(@), !.data = JsonLoads(@)]

\* h5json_to_db(otype, oinfo) is called
H5jsonToDbCall ==
    /\ vpc = "h5json"
    /\ vout' = H5jsonToDb(vin.otype, vin.oinfo)
    /\ vpc' = IF vout'.exc = "none" THEN "db" ELSE "raised"
    /\ UNCHANGED <<wvars, rvars, vin>>

\* the chunk shapes guess_chunk may return
GuessedChunks == {PyList(<<PyInt(1)>>), PyList(<<PyInt(2)>>)}

\* the record is read back and db_to_h5json(otype, oinfo) is called
DbToH5jsonCall ==
    /\ vpc = "db"
    /\ \E chunk \in GuessedChunks :
          vout' = DbToH5json(vin.otype, Decoded(vout.val), chunk)
    /\ vpc' = IF vout'.exc = "none" THEN "done" ELSE "raised"
    /\ UNCHANGED <<wvars, rvars, vin>>

\* the dataspaces, creation properties and values of the descriptions converted
ConvertedShapes ==
    {Scalar, [class |-> "H5S_NULL"], Shape1,
     [class |-> "H5S_SIMPLE", dims |-> PyList(<<PyInt(2)>>), maxdims |-> PyList(<<PyInt(3)>>)],
     [class |-> "H5S_SIMPLE", dims |-> PyList(<<PyInt(2), PyInt(3)>>),
      maxdims |-> PyList(<<PyStr(H5S_UNLIMITED), PyInt(3)>>)]}

ConvertedProperties ==
    {EmptyDict,
     [layout |-> [class |-> "H5D_CONTIGUOUS"]],
     [layout |-> [class |-> "H5D_COMPACT"], fillValue |-> PyInt(0)],
     [layout |-> Chunked(<<PyInt(2)>>)],
     [layout |-> [class |-> "H5D_CHUNKED"]],
     [filters |-> PyList(<<>>)],
     [layout |-> Chunked(<<PyInt(2)>>), filters |-> PyList(<<Deflate>>)],
     [layout |-> Chunked(<<PyInt(1)>>), filters |-> PyList(<<Deflate, Fletcher32>>),
      fillValue |-> PyInt(1)]}

ConvertedValues ==
    {PyInt(0), PyInt(1), PyList(<<>>), PyList(<<PyInt(1), PyInt(2)>>), PyStr(<<"a">>)}

Named(d, withUuid) ==
    IF withUuid THEN Put(Put(d, "name", PyStr(<<"a">>)), "uuid", U1)
    ELSE Put(d, "name", PyStr(<<"a">>))

Descriptions ==
    {[otype |-> "attribute", oinfo |-> Named([shape |-> sh, type |-> Int32, value |-> v], u)] :
         sh \in ConvertedShapes, v \in ConvertedValues, u \in BOOLEAN}
    \cup {[otype |-> "dataset",
           oinfo |-> Named([shape |-> sh, type |-> Int32, creationProperties |-> cp], u)] :
              sh \in ConvertedShapes, cp \in ConvertedProperties, u \in BOOLEAN}
    \cup {[otype |-> "dataset",
           oinfo |-> Named([shape |-> sh, type |-> Int32, creationProperties |-> cp,
                            value |-> v], TRUE)] :
              sh \in ConvertedShapes, cp \in ConvertedProperties, v \in ConvertedValues}
    \cup {[otype |-> ot, oinfo |-> Named([description |-> PyStr(<<"g">>)], u)] :
              ot \in {"group", "datatype", "attribute", "dataset"}, u \in BOOLEAN}
    \cup {[otype |-> "dataset", oinfo |-> [shape |-> Scalar, type |-> Int32]]}

InitConvert ==
    /\ WalkerIdle
    /\ RewriterIdle
    /\ vin \in Descriptions
    /\ vout = Returned(EmptyDict)
    /\ vpc = "h5json"

NextConvert == H5jsonToDbCall \/ DbToH5jsonCall

SpecConvert == InitConvert /\ [][NextConvert]_vars

(***************************************************************************)
(* What the converters are compared with.                                  *)
(***************************************************************************)
ConvertEnded == vpc \in {"done", "raised"}

\* the description converted is one of an attribute or a dataset with all
\* the fields the converters read: a name, an identifier, a shape, a type,
\* and a value (attribute) or creation properties whose chunked layout has
\* its dims (dataset)
Convertible ==
    /\ vin.otype \in {"attribute", "dataset"}
    /\ KeysRead(vin.otype, vin.oinfo) \cup {"uuid"} \subseteq DOMAIN vin.oinfo
    /\ vin.otype = "dataset" =>
          \/ "layout" \notin DOMAIN vin.oinfo.creationProperties
          \/ vin.oinfo.creationProperties.layout.class # "H5D_CHUNKED"
          \/ "dims" \in DOMAIN vin.oinfo.creationProperties.layout

\* the dataspace s with the maxdims it has when none are given: its dims
WithMaxdims(s) ==
    IF s.class = "H5S_SIMPLE" /\ "maxdims" \notin DOMAIN s
      THEN Put(s, "maxdims", s.dims) ELSE s

\* the creation properties cp of a dataset with the layout they have when
\* none is given, and without an empty filter list
Canonical(cp) ==
    LET a == IF "layout" \in DOMAIN cp THEN cp
             ELSE Put(cp, "layout", [class |-> "H5D_CONTIGUOUS"])
    IN  IF "filters" \in DOMAIN a /\ a.filters = PyList(<<>>)
          THEN [k \in DOMAIN a \ {"filters"} |-> a[k]] ELSE a

StorageKeys == {"layout", "filters", "fillValue"}

\* C17: converting the description of an attribute or of a dataset to the
\* storage format and back returns a description with the same dataspace
\* class, for a Simple dataspace with the same dims and maxdims (maxdims
\* that are not given counting as the dims); layout, filters and fillValue
\* are in the result only for a dataset, and are those of the input (a
\* layout that is not given counting as Contiguous, an empty filter list as
\* none).
C17_RoundTripPreserves ==
    (ConvertEnded /\ Convertible) =>
        /\ vpc = "done"
        /\ vout.val.shape = WithMaxdims(vin.oinfo.shape)
        /\ vin.otype = "attribute" =>
              DOMAIN vout.val.creationProperties \cap StorageKeys = {}
        /\ vin.otype = "dataset" =>
              LET cp == Canonical(vin.oinfo.creationProperties)
                  out == vout.val.creationProperties
              IN  /\ DOMAIN out \cap StorageKeys = DOMAIN cp \cap StorageKeys
                  /\ \A k \in DOMAIN out \cap StorageKeys : out[k] = cp[k]

(***************************************************************************)
(* The kinds of failure of the object validator.                           *)
(***************************************************************************)
ValidateDone == vpc = "done"

\* the kinds of failure the validator documents
DocumentedKinds == {"KeyError", "ValueError", "TypeError", "NotImplementedError"}

\* C18: for every object description validate_h5json either returns or
\* fails with one of the four documented kinds, KeyError, ValueError,
\* TypeError or NotImplementedError: no other kind of failure is reached,
\* also not for a value given with a Null dataspace, nor for a value, a
\* chunked layout or a filter given without a shape or a type.
C18_ClosedTaxonomy == ValidateDone => vout.exc \in {"none"} \cup DocumentedKinds

(***************************************************************************)
(* merge_dicts.  A dictionary is a function from its keys; a value that is *)
(* not a dictionary is a Python value, which has a field t.                *)
(***************************************************************************)
\* the mutant of merge_dicts that takes the value of d2 for every key that
\* is in both
MergeDictsShallow(d1, d2) ==
    [k \in DOMAIN d1 \cup DOMAIN d2 |-> IF k \in DOMAIN d2 THEN d2[k] ELSE d1[k]]

\* dict(merge_dicts(d1, d2))
RECURSIVE MergeDicts(_, _)
MergeDicts(d1, d2) ==
    [k \in DOMAIN d1 \cup DOMAIN d2 |->
        IF k \in DOMAIN d1 /\ k \in DOMAIN d2
          THEN IF IsDict(d1[k]) /\ IsDict(d2[k])
                 THEN MergeDicts(d1[k], d2[k])
                 ELSE d2[k]
          ELSE IF k \in DOMAIN d1 THEN d1[k] ELSE d2[k]]

\* dict(merge_dicts(d1, d2)) is called
MergeDictsCall ==
    /\ vpc = "merge"
    /\ vout' = Returned(MergeDicts(vin.d1, vin.d2))
    /\ vpc' = "done"
    /\ UNCHANGED <<wvars, rvars, vin>>

\* the dictionaries merged: over two keys, nested twice at most
MergeKeys == {"x", "y"}
MergeLeaves == {PyInt(1), PyStr(<<"a">>)}

\* the dictionaries whose keys are in MergeKeys and whose values are in V
DictsOver(V) == UNION {[K -> V] : K \in SUBSET MergeKeys}

FlatDicts == DictsOver(MergeLeaves)
NestedDicts == DictsOver(MergeLeaves \cup FlatDicts)

InitMerge ==
    /\ WalkerIdle
    /\ RewriterIdle
    /\ vin \in [d1 : NestedDicts, d2 : NestedDicts]
    /\ vout = Returned(EmptyDict)
    /\ vpc = "merge"

NextMerge == MergeDictsCall

SpecMerge == InitMerge /\ [][NextMerge]_vars

MergeDone == vpc = "done"

\* m is the deep merge of a and b
RECURSIVE IsDeepMerge(_, _, _)
IsDeepMerge(a, b, m) ==
    /\ IsDict(m)
    /\ DOMAIN m = DOMAIN a \cup DOMAIN b
    /\ \A k \in DOMAIN a \ DOMAIN b : m[k] = a[k]
    /\ \A k \in DOMAIN b \ DOMAIN a : m[k] = b[k]
    /\ \A k \in DOMAIN a \cap DOMAIN b :
          IF IsDict(a[k]) /\ IsDict(b[k])
            THEN IsDeepMerge(a[k], b[k], m[k])
            ELSE m[k] = b[k]

\* C19: the merged mapping has exactly the keys of d1 and of d2; a key of
\* one input only has that input's value; a key of both whose two values
\* are mappings has their merge, at every depth; a key of both otherwise has
\* d2's value.  So the merge of d with d is d, and the merge with the empty
\* mapping on either side is the other input.
C19_DeepMerge ==
    MergeDone =>
        /\ IsDeepMerge(vin.d1, vin.d2, vout.val)
        /\ vin.d1 = vin.d2 => vout.val = vin.d1
        /\ vin.d1 = EmptyDict => vout.val = vin.d2
        /\ vin.d2 = EmptyDict => vout.val = vin.d1

\* a merge of two mappings that share a key whose values are mappings with
\* different keys, and a key whose value is a mapping in d1 only
C19_Witness ==
    /\ MergeDone
    /\ vin.d1 = [x |-> [x |-> PyInt(1)], y |-> [y |-> PyInt(1)]]
    /\ vin.d2 = [x |-> [y |-> PyStr(<<"a">>)], y |-> PyInt(1)]
    /\ vout.val = [x |-> [x |-> PyInt(1), y |-> PyStr(<<"a">>)], y |-> PyInt(1)]

(***************************************************************************)
(* The walker on designs whose hard links may form cycles.                 *)
(***************************************************************************)
\* the links a group of such a design may hold: hard links to any of the
\* three groups, itself included, to a dataset, and a soft link to the root
LoopLinkKinds ==
    {HardLink("groups", g) : g \in {G0, G1, G2}}
    \cup {HardLink("datasets", D1),
          [class |-> "H5L_TYPE_SOFT", collection |-> "groups", id |-> G0]}

\* the lists of at most len such links
LoopLinkLists(len) ==
    UNION {{[i \in 1..n |-> WithTitle(ks[i], Titles[i])] :
              ks \in [1..n -> LoopLinkKinds]} : n \in 0..len}

LoopDesigns ==
    {[root |-> G0,
      groups |-> [g \in {G0, G1, G2} |->
                    IF g = G0 THEN GroupOf(l0) ELSE IF g = G1 THEN GroupOf(l1)
                    ELSE GroupOf(l2)]] :
        <<l0, l1, l2>> \in LoopLinkLists(Len(Titles)) \X LoopLinkLists(1) \X LoopLinkLists(1)}

InitTerminate ==
    /\ h5j \in LoopDesigns
    /\ otype \in {"group", "dataset"}
    /\ grps = <<>>
    /\ dsets = <<>>
    /\ stack = <<>>
    /\ wpc = "start"
    /\ wret = [exc |-> "none", val |-> <<>>]
    /\ walk0 = [exc |-> "none", val |-> <<>>]
    /\ RewriterIdle
    /\ ValidatorIdle

\* The interpreter runs the call to its end: a step that can be taken is
\* taken.
SpecTerminate == InitTerminate /\ [][NextWalk]_vars /\ WF_vars(NextWalk)

\* the groups the hard links of the groups in S lead to
HardTargets(S) ==
    {GroupLinks(g)[n].id :
        <<g, n>> \in {q \in S \X (1..Len(Titles)) :
                         /\ q[2] <= Len(GroupLinks(q[1]))
                         /\ IsHardTo(GroupLinks(q[1])[q[2]], "groups")}}

\* the groups reached from those in S by hard links, S included
RECURSIVE HardClosure(_)
HardClosure(S) ==
    IF HardTargets(S) \subseteq S THEN S ELSE HardClosure(S \cup HardTargets(S))

\* a group reached from the root is reached from itself by one hard link or
\* more
CycleReachable ==
    \E g \in HardClosure({h5j.root}) : g \in HardClosure(HardTargets({g}))

\* the longest chain of hard links from the group g, counted in groups, in
\* a design without a reachable cycle
RECURSIVE ChainFrom(_)
ChainFrom(g) ==
    LET below == {ChainFrom(c) : c \in HardTargets({g})}
    IN  1 + (IF below = {} THEN 0 ELSE CHOOSE n \in below : \A m \in below : m <= n)

WalkRaised(exc) == wpc = "raised" /\ wret.exc = exc

(***************************************************************************)
(* C20 (as stated): on a design whose hard links among groups hold no      *)
(* cycle the walk terminates and returns; on a design with a cycle of hard *)
(* links among groups reached from the root the walk never terminates: it  *)
(* neither returns nor raises an error.                                    *)
(***************************************************************************)
C20_NeverTerminates ==
    /\ ~CycleReachable => <>WalkDone
    /\ [](CycleReachable => wpc \notin {"done", "raised"})

(***************************************************************************)
(* C20 (amended): on a design without such a cycle, and nested no deeper   *)
(* than the recursion limit of the interpreter, the walk terminates and    *)
(* returns.  On a design with a cycle of hard links among groups reached   *)
(* from the root the walk never returns: there is no visited set, every    *)
(* turn of the cycle nests one more call, and the walk ends when the       *)
(* recursion limit is reached, with the interpreter's RuntimeError.        *)
(***************************************************************************)
C20_EndsInRecursionError ==
    /\ (~CycleReachable /\ ChainFrom(h5j.root) <= RecursionLimit) => <>WalkDone
    /\ CycleReachable => <>WalkRaised("RuntimeError")
    /\ [](CycleReachable => ~WalkDone)
    /\ [](WalkRaised("RuntimeError") => CycleReachable)

\* a walk of a design in which the root is linked to g1 and g1 back to the
\* root, ended by the recursion limit after listing the two groups in turn
C20_Witness ==
    /\ WalkRaised("RuntimeError")
    /\ CycleReachable
    /\ G0 \notin HardTargets({G0})
    /\ Len(stack) = RecursionLimit
    /\ Len(grps) > Cardinality(DOMAIN h5j.groups)

(***************************************************************************)
(* The object validator on descriptions that break several checks at once. *)
(***************************************************************************)
\* For each field of a description: a value that passes its check, values
\* that fail it, and (None) the field left out.
OrderShapes == {None, Scalar, [class |-> "H5S_COMPLEX"], [dims |-> PyList(<<PyInt(2)>>)]}
OrderTypes == {None, Int32, [class |-> "H5T_INTEGER", base |-> H5T_STD \o <<"I", "2", "4", "L", "E">>]}
OrderValues == {None, PyInt(1), PyList(<<PyInt(1)>>), Num(63, 0)}
OrderNames == {None, PyStr(<<"a">>), PyStr(<<>>), PyInt(1)}
OrderProperties ==
    {None,
     [nameCharEncoding |-> "latin1", layout |-> [class |-> "H5D_VIRTUAL"],
      filters |-> PyInt(1), fillValue |-> Num(63, 0)],
     [nameCharEncoding |-> "H5T_CSET_ASCII", layout |-> [class |-> "H5D_VIRTUAL"],
      filters |-> PyInt(1), fillValue |-> Num(63, 0)],
     [layout |-> [class |-> "H5D_COMPACT"], filters |-> PyList(<<Deflate>>),
      fillValue |-> Num(63, 0)],
     [layout |-> [class |-> "H5D_COMPACT"], filters |-> PyList(<<>>),
      fillValue |-> Num(63, 0)],
     [filters |-> PyList(<<[class |-> "H5Z_FILTER_NONE"]>>), fillValue |-> PyInt(0)],
     [fillValue |-> PyInt(0)]}

\* the description with the fields that are given
Described(sh, ty, va, na, cp) ==
    LET given == [shape |-> sh, type |-> ty, value |-> va, name |-> na,
                  creationProperties |-> cp]
    IN  [k \in {f \in DOMAIN given : given[f] # None} |-> given[k]]

OrderObjects ==
    {Described(sh, ty, va, na, cp) :
        sh \in OrderShapes, ty \in OrderTypes, va \in OrderValues, na \in OrderNames,
        cp \in OrderProperties}

InitOrder ==
    /\ WalkerIdle
    /\ RewriterIdle
    /\ vin \in {[h5j |-> o, reqd |-> r] :
                  o \in OrderObjects, r \in {<<>>, <<"shape", "type">>}}
    /\ vout = OK
    /\ vpc = "validate"

NextOrder == ValidateH5jsonCall

SpecOrder == InitOrder /\ [][NextOrder]_vars

OrderDone == vpc = "done" /\ vin.h5j \in OrderObjects

MissingRequired == Raise("KeyError", "Required but missing")

\* The checks in the order claimed, each with the outcome it has on the
\* description when it is run: 1 required fields, 2 shape, 3 type, 4 value,
\* 5 name, 6 character encoding, 7 layout, 8 filters, 9 fillValue.
CheckNumber(k, obj, reqd) ==
    LET has(f) == f \in DOMAIN obj
        cp == obj.creationProperties
    IN  CASE k = 1 -> IF \A i \in 1..Len(reqd) : has(reqd[i]) THEN OK ELSE MissingRequired
          [] k = 2 -> IF has("shape") THEN CheckShape(obj.shape) ELSE OK
          [] k = 3 -> IF has("type") THEN CheckType(obj.type) ELSE OK
          [] k = 4 -> ValueStage(obj)
          [] k = 5 -> NameStage(obj)
          [] k = 6 -> IF has("creationProperties") /\ "nameCharEncoding" \in DOMAIN cp
                         /\ cp.nameCharEncoding \notin {"H5T_CSET_UTF8", "H5T_CSET_ASCII"}
                        THEN Raise("ValueError", "Invalid character encoding name") ELSE OK
          [] k = 7 -> IF has("creationProperties") THEN LayoutStage(obj, cp) ELSE OK
          [] k = 8 -> IF has("creationProperties") THEN FiltersStage(obj, cp) ELSE OK
          [] k = 9 -> IF has("creationProperties") /\ "fillValue" \in DOMAIN cp
                        THEN CheckValue(obj, PyList(<<cp.fillValue>>)) ELSE OK

\* the outcome of the earliest check from number k on that fails, the later
\* ones not being run
RECURSIVE EarliestFrom(_, _, _)
EarliestFrom(k, obj, reqd) ==
    IF k > 9 THEN OK
    ELSE IF CheckNumber(k, obj, reqd) # OK THEN CheckNumber(k, obj, reqd)
    ELSE EarliestFrom(k + 1, obj, reqd)

\* C21: the failure reported for a description is that of the earliest
\* check it violates in the order required fields, shape, type, value,
\* name, creation properties (character encoding, layout, filters,
\* fillValue), no check after that one being run; in particular a missing
\* required field is reported before any other violation.
C21_CheckOrder ==
    OrderDone =>
        /\ vout = EarliestFrom(1, vin.h5j, vin.reqd)
        /\ (\E i \in 1..Len(vin.reqd) : vin.reqd[i] \notin DOMAIN vin.h5j) =>
              vout = MissingRequired

\* a description that is validated with a value, a name and creation
\* properties that each break a check: the failure is that of the value
C21_Witness ==
    /\ OrderDone
    /\ vin.h5j = Described(Scalar, Int32, PyList(<<PyInt(1)>>), PyStr(<<>>),
                           [fillValue |-> PyInt(0),
                            filters |-> PyList(<<[class |-> "H5Z_FILTER_NONE"]>>)])
    /\ NameStage(vin.h5j) # OK
    /\ CreationPropertiesStage(vin.h5j) # OK
    /\ vout = Raise("TypeError", "Value cannot be in a list for dataspace")

(***************************************************************************)
(* The object validator on objects of every datatype class, with a value   *)
(* or a fillValue.                                                         *)
(***************************************************************************)
ReferenceTo(base) == [class |-> "H5T_REFERENCE", base |-> base]
ArrayOf(base) == [class |-> "H5T_ARRAY", dims |-> PyList(<<PyInt(2)>>), base |-> base]
VlenOf(base) == [class |-> "H5T_VLEN", base |-> base]

\* the datatypes of the objects: of the classes the value checker has no
\* test for, of the classes it has one for, and of a class check_type
\* rejects
UntestedTypes ==
    {ReferenceTo(H5T_STD_REF_OBJ), ReferenceTo(H5T_STD_REF_DSETREG), ArrayOf(Int32),
     ArrayOf(String4)}
TestedTypes ==
    {String4, Int32, Float64, VlenOf(Int32), VlenOf(ReferenceTo(H5T_STD_REF_OBJ)),
     Compound(<<Member(<<"x">>, ArrayOf(Int32))>>)}
GapTypes == UntestedTypes \cup TestedTypes \cup {[class |-> "H5T_OPAQUE"]}

GapShapes == {None, Scalar, Shape1, [class |-> "H5S_NULL"]}
GapValues ==
    {None, PyInt(1), PyStr(<<"x">>), PyList(<<PyInt(1), PyInt(2)>>),
     PyList(<<PyStr(<<"x">>), PyStr(<<"y">>)>>), PyList(<<PyInt(1)>>)}
GapProperties ==
    {None, [fillValue |-> PyInt(1)], [fillValue |-> PyStr(<<"x">>)],
     [fillValue |-> PyInt(1), nameCharEncoding |-> "latin1"],
     [layout |-> [class |-> "H5D_COMPACT"]]}

GapObjects ==
    {Described(sh, ty, va, None, cp) :
        sh \in GapShapes, ty \in GapTypes, va \in GapValues, cp \in GapProperties}

InitGap ==
    /\ WalkerIdle
    /\ RewriterIdle
    /\ vin \in {[h5j |-> o, reqd |-> <<"type">>] : o \in GapObjects}
    /\ vout = OK
    /\ vpc = "validate"

NextGap == ValidateH5jsonCall

SpecGap == InitGap /\ [][NextGap]_vars

GapDone == vpc = "done" /\ vin.h5j \in GapObjects

\* the object carries a value, a fillValue
HasValue == "value" \in DOMAIN vin.h5j
HasFillValue ==
    /\ "creationProperties" \in DOMAIN vin.h5j
    /\ "fillValue" \in DOMAIN vin.h5j.creationProperties

\* the datatype is of a class check_type accepts and value_check_factory
\* has no test for
Untested == vin.h5j.type.class \in {"H5T_REFERENCE", "H5T_ARRAY"}

UnsupportedClass == Raise("NotImplementedError", "HDF5 datatype class is not supported")

\* the tests made of a value before value_check_factory is called pass: the
\* shape is given, and the value is a list of that shape for a Simple
\* dataspace and is not a list for a Scalar one
ValueFitsShape ==
    /\ "shape" \in DOMAIN vin.h5j
    /\ vin.h5j.shape.class = "H5S_SIMPLE" =>
          /\ vin.h5j.value.t = "list"
          /\ [i \in 1..Len(NpShape(vin.h5j.value.v)) |-> PyInt(NpShape(vin.h5j.value.v)[i])]
                = vin.h5j.shape.dims.v
    /\ vin.h5j.shape.class = "H5S_SCALAR" => vin.h5j.value.t # "list"

(***************************************************************************)
(* C22 (as stated): an object whose datatype is of the Reference or the    *)
(* Array class and which carries a value or a fillValue always fails with  *)
(* the unsupported-class error, whatever the value is; an object with a    *)
(* value or a fillValue validates only when its datatype is of the String, *)
(* Integer, Float, Compound or VariableLength class.                       *)
(***************************************************************************)
C22_AlwaysUnsupported ==
    GapDone =>
        /\ (Untested /\ (HasValue \/ HasFillValue)) => vout = UnsupportedClass
        /\ (vout = OK /\ (HasValue \/ HasFillValue)) =>
              vin.h5j.type.class \in {"H5T_STRING", "H5T_INTEGER", "H5T_FLOAT",
                                      "H5T_COMPOUND", "H5T_VLEN"}

(***************************************************************************)
(* C22 (amended): an object whose datatype is of the Reference or the      *)
(* Array class and which carries a value or a fillValue always fails.  It  *)
(* fails with the unsupported-class error when no earlier check fails:     *)
(* with a value, when the shape is given and the value is a list of that   *)
(* shape (Simple) or is not a list (Scalar); with a fillValue only, when   *)
(* the name, the character encoding, the layout and the filters pass.      *)
(* Otherwise it fails with the error of the earlier check.  An object with *)
(* a value or a fillValue validates only when its datatype is of the       *)
(* String, Integer, Float, Compound or VariableLength class.               *)
(***************************************************************************)
C22_FailsUnsupportedUnlessEarlier ==
    GapDone =>
        /\ (Untested /\ (HasValue \/ HasFillValue)) =>
              /\ vout # OK
              /\ (HasValue /\ ValueFitsShape) => vout = UnsupportedClass
              /\ (~HasValue /\ \A k \in 5..8 : CheckNumber(k, vin.h5j, vin.reqd) = OK) =>
                    vout = UnsupportedClass
              \* otherwise the failure is the one an object of a tested class
              \* has at the same check
              /\ vout # UnsupportedClass =>
                    vout = EarliestFrom(4, [f \in DOMAIN vin.h5j \ {"type"} |-> vin.h5j[f]]
                                              @@ [type |-> VlenOf(Int32)], vin.reqd)
        /\ (vout = OK /\ (HasValue \/ HasFillValue)) =>
              vin.h5j.type.class \in {"H5T_STRING", "H5T_INTEGER", "H5T_FLOAT",
                                      "H5T_COMPOUND", "H5T_VLEN"}

\* an object of a reference datatype and a Scalar dataspace whose value is
\* a list: it fails at the test of the value against the dataspace
C22_Witness ==
    /\ GapDone
    /\ vin.h5j.type = ReferenceTo(H5T_STD_REF_OBJ)
    /\ HasValue /\ ~HasFillValue
    /\ "shape" \in DOMAIN vin.h5j
    /\ vin.h5j.shape = Scalar
    /\ vin.h5j.value = PyList(<<PyInt(1)>>)
    /\ vout = Raise("TypeError", "Value cannot be in a list for dataspace")

====
